---------------------------- MODULE Spec2Model ----------------------------
(***************************************************************************)
(* A model of the file_converter package: the CSV->JSON and JSON->CSV      *)
(* converters, the value coercion of CSV cells, and the file system the    *)
(* converters read and write.                                              *)
(*                                                                         *)
(* Texts are sequences of one-character strings.  A CSV file is its text,  *)
(* with "\n" standing for a line end.  A JSON file is the sequence of its  *)
(* tokens (insignificant white space and the indentation are left out).    *)
(*                                                                         *)
(* A function of the source is modelled by an operator of the same role;   *)
(* where the source binds a local variable and uses it several times, the  *)
(* model passes it on as the parameter of a follow-up operator.            *)
(***************************************************************************)
EXTENDS Integers, Sequences, FiniteSets, TLC

VARIABLES
    cellText,    \* the argument of _parse_value (a text, or PyNone)
    cellValue,   \* what _parse_value returned for it (NotCalled before the call)
    fs,          \* the file system: path -> file (absent, CSV text or JSON tokens)
    result,      \* the last converter call: its arguments and its outcome
    calls,       \* number of converter calls made so far
    proc         \* the command-line process: its arguments, position and streams

vars == <<cellText, cellValue, fs, result, calls, proc>>

(***************************************************************************)
(* Bounds of the model.                                                    *)
(***************************************************************************)
MaxCellLen == 3
MaxCsvLen == 5
MaxRecords == 2

(***************************************************************************)
(* Python values.                                                          *)
(***************************************************************************)
PyNone == [k |-> "none"]
PyStr(s) == [k |-> "str", s |-> s]
PyInt(n) == [k |-> "int", n |-> n]
PyBool(b) == [k |-> "bool", b |-> b]
PyList(xs) == [k |-> "list", items |-> xs]
PyDict(ks, vs) == [k |-> "dict", keys |-> ks, vals |-> vs]
\* A float: a finite decimal (-1)^neg * mant * 10^exp with mant not a multiple
\* of 10 (mant = 0 has exp = 0), or nan, or +/- inf.  Exact for the decimal
\* texts of at most 15 significant digits, which is every text of the model.
PyFloat(cls, neg, mant, exp) ==
    [k |-> "float", cls |-> cls, neg |-> neg, mant |-> mant, exp |-> exp]
PyNaN == PyFloat("nan", FALSE, 0, 0)
PyInf(neg) == PyFloat("inf", neg, 0, 0)
\* An exception leaving a function.
Raise(exc, msg) == [k |-> "raise", exc |-> exc, msg |-> msg]
\* No exception
Ok == [k |-> "ok"]

(***************************************************************************)
(* Characters and texts.                                                   *)
(***************************************************************************)
Digits == {"0", "1", "2", "3", "4", "5", "6", "7", "8", "9"}
Whitespace == {" ", "\t", "\n", "\r"}

IsDigit(c) == c \in Digits

DigitVal(c) ==
    CASE c = "0" -> 0 [] c = "1" -> 1 [] c = "2" -> 2 [] c = "3" -> 3
      [] c = "4" -> 4 [] c = "5" -> 5 [] c = "6" -> 6 [] c = "7" -> 7
      [] c = "8" -> 8 [] c = "9" -> 9

DigitChar(d) ==
    CASE d = 0 -> "0" [] d = 1 -> "1" [] d = 2 -> "2" [] d = 3 -> "3"
      [] d = 4 -> "4" [] d = 5 -> "5" [] d = 6 -> "6" [] d = 7 -> "7"
      [] d = 8 -> "8" [] d = 9 -> "9"

\* str.lower() on the letters the model uses in upper case.
Lower(c) ==
    CASE c = "N" -> "n" [] c = "I" -> "i" [] c = "F" -> "f" [] c = "E" -> "e"
      [] c = "A" -> "a" [] c = "T" -> "t" [] c = "Y" -> "y" [] c = "B" -> "b"
      [] OTHER -> c

LowerStr(s) == [i \in 1..Len(s) |-> Lower(s[i])]

\* s[a..b], empty when a > b
Slice(s, a, b) == IF a > b THEN <<>> ELSE SubSeq(s, a, b)

\* The text before position i and the text after it; with i = 0 (no such
\* position) all of s is before it
Before(s, i) == IF i = 0 THEN s ELSE Slice(s, 1, i - 1)
After(s, i) == IF i = 0 THEN <<>> ELSE Slice(s, i + 1, Len(s))

Has(s, c) == \E i \in 1..Len(s) : s[i] = c

RECURSIVE Concat(_)
Concat(texts) == IF texts = <<>> THEN <<>> ELSE Head(texts) \o Concat(Tail(texts))

\* All texts over alphabet A of length n, and of length at most n
RECURSIVE TextsOfLen(_, _)
TextsOfLen(A, n) ==
    IF n = 0 THEN {<<>>}
    ELSE {Append(s, c) : s \in TextsOfLen(A, n - 1), c \in A}

TextsUpTo(A, n) == UNION {TextsOfLen(A, k) : k \in 0..n}

\* str.strip(): leading and trailing white space removed
RECURSIVE LStrip(_)
LStrip(s) ==
    IF s # <<>> /\ Head(s) \in Whitespace THEN LStrip(Tail(s)) ELSE s

RECURSIVE RStrip(_)
RStrip(s) ==
    IF s # <<>> /\ s[Len(s)] \in Whitespace
    THEN RStrip(SubSeq(s, 1, Len(s) - 1)) ELSE s

Strip(s) == RStrip(LStrip(s))

\* str.isdigit() (on ASCII texts): not empty and digits only
IsDigitStr(s) == s # <<>> /\ \A i \in 1..Len(s) : IsDigit(s[i])

\* The value of a digit text; int(s) for s.isdigit()
RECURSIVE StrToNat(_)
StrToNat(s) ==
    IF s = <<>> THEN 0
    ELSE 10 * StrToNat(SubSeq(s, 1, Len(s) - 1)) + DigitVal(s[Len(s)])

\* The decimal digits of a natural number; str(n) for n >= 0
RECURSIVE NatToStr(_)
NatToStr(n) ==
    IF n < 10 THEN <<DigitChar(n)>>
    ELSE Append(NatToStr(n \div 10), DigitChar(n % 10))

\* str(n) of an int
IntToStr(n) == IF n < 0 THEN <<"-">> \o NatToStr(-n) ELSE NatToStr(n)

\* int(s) of an optional sign and digits
StrToInt(s) ==
    IF Head(s) = "-" THEN -StrToNat(Tail(s))
    ELSE IF Head(s) = "+" THEN StrToNat(Tail(s))
    ELSE StrToNat(s)

Zeros(n) == [i \in 1..n |-> "0"]

\* Index of the first character of s that is in set S, 0 if there is none
FirstIndex(s, S) ==
    IF \E i \in 1..Len(s) : s[i] \in S
    THEN CHOOSE i \in 1..Len(s) : s[i] \in S /\ \A j \in 1..(i - 1) : s[j] \notin S
    ELSE 0

(***************************************************************************)
(* float(s) and repr(float): the interpreter's float parser and printer.   *)
(***************************************************************************)
\* float() accepts "_" only between two digits
UnderscoresOk(s) ==
    \A i \in 1..Len(s) :
        s[i] = "_" => /\ i > 1 /\ i < Len(s)
                      /\ IsDigit(s[i - 1]) /\ IsDigit(s[i + 1])

NotUnderscore(c) == c # "_"
RemoveUnderscores(s) == SelectSeq(s, NotUnderscore)

FloatValueError == Raise("ValueError", "could not convert string to float")

RECURSIVE StripZeros(_, _, _)
StripZeros(neg, mant, exp) ==
    IF mant = 0 THEN PyFloat("fin", neg, 0, 0)
    ELSE IF mant % 10 = 0 THEN StripZeros(neg, mant \div 10, exp + 1)
    ELSE PyFloat("fin", neg, mant, exp)

\* f as a double, sci being the exponent of its form d.ddd * 10^sci: above
\* 10^308 it is inf, below 10^-324 it is zero
ClampFloat(f, sci) ==
    IF sci > 308 THEN PyInf(f.neg)
    ELSE IF sci < -324 THEN PyFloat("fin", f.neg, 0, 0)
    ELSE f

RangeFloat(f) ==
    IF f.mant = 0 THEN f ELSE ClampFloat(f, f.exp + Len(NatToStr(f.mant)) - 1)

\* The double nearest to (-1)^neg * mant * 10^exp
MakeFloat(neg, mant, exp) == RangeFloat(StripZeros(neg, mant, exp))

\* The sign of a number text and the text after it
HasSign(u) == u # <<>> /\ Head(u) \in {"+", "-"}
IsNegative(u) == u # <<>> /\ Head(u) = "-"
Unsigned(u) == IF HasSign(u) THEN Tail(u) ELSE u

\* The exponent part of a float text, after the "e": [+-]digits
ExponentOk(x) == x # <<>> /\ IsDigitStr(Unsigned(x))

\* A decimal text in parts: the digits before the point, whether there is a
\* point, the digits after it, whether there is an "e", the text after it
Parts(ip, dot, fp, e, x) ==
    [ip |-> ip, hasDot |-> dot, fp |-> fp, hasExp |-> e, x |-> x]

PartsAtDot(m, dot, epos, x) ==
    Parts(Before(m, dot), dot # 0, After(m, dot), epos # 0, x)

PartsAtExp(t, epos) ==
    PartsAtDot(Before(t, epos), FirstIndex(Before(t, epos), {"."}), epos,
               After(t, epos))

DecimalParts(t) == PartsAtExp(t, FirstIndex(t, {"e", "E"}))

\* float() of a decimal text in parts: [digits][.][digits][e[+-]digits], with
\* a digit at least before the exponent
FloatOfParts(neg, p) ==
    IF /\ \A i \in 1..Len(p.ip) : IsDigit(p.ip[i])
       /\ \A i \in 1..Len(p.fp) : IsDigit(p.fp[i])
       /\ Len(p.ip) + Len(p.fp) >= 1
       /\ p.hasExp => ExponentOk(p.x)
    THEN MakeFloat(neg, StrToNat(p.ip \o p.fp),
                   (IF p.hasExp THEN StrToInt(p.x) ELSE 0) - Len(p.fp))
    ELSE FloatValueError

\* float() of an unsigned text in lower case
FloatBody(neg, low) ==
    IF low \in {<<"i", "n", "f">>, <<"i", "n", "f", "i", "n", "i", "t", "y">>}
    THEN PyInf(neg)
    ELSE IF low = <<"n", "a", "n">> THEN PyNaN
    ELSE FloatOfParts(neg, DecimalParts(low))

FloatSigned(u) == FloatBody(IsNegative(u), LowerStr(Unsigned(u)))

FloatStripped(t) ==
    IF UnderscoresOk(t) THEN FloatSigned(RemoveUnderscores(t)) ELSE FloatValueError

\* float(s): a PyFloat, or FloatValueError
FloatParse(s) == FloatStripped(Strip(s))

\* repr of the digits ds of a float in the exponent form d.ddde+XX
ReprExp(ds, sci) ==
    <<ds[1]>> \o (IF Len(ds) > 1 THEN <<".">> \o Slice(ds, 2, Len(ds)) ELSE <<>>)
    \o <<"e", IF sci < 0 THEN "-" ELSE "+">>
    \o (IF sci > -10 /\ sci < 10 THEN <<"0">> ELSE <<>>)
    \o NatToStr(IF sci < 0 THEN -sci ELSE sci)

\* repr of the digits ds of a float times 10^exp in the positional form
ReprFixed(ds, exp, sci) ==
    IF exp >= 0 THEN ds \o Zeros(exp) \o <<".", "0">>
    ELSE IF sci >= 0
    THEN Slice(ds, 1, sci + 1) \o <<".">> \o Slice(ds, sci + 2, Len(ds))
    ELSE <<"0", ".">> \o Zeros(-sci - 1) \o ds

\* repr() uses the exponent form outside 1e-4 <= |x| < 1e16
ReprAt(ds, exp, sci) ==
    IF sci >= -4 /\ sci < 16 THEN ReprFixed(ds, exp, sci) ELSE ReprExp(ds, sci)

ReprDigits(ds, exp) == ReprAt(ds, exp, exp + Len(ds) - 1)

\* float.__repr__ (also str(float)): the shortest text that reads back
FloatRepr(f) ==
    IF f.cls = "nan" THEN <<"n", "a", "n">>
    ELSE (IF f.neg THEN <<"-">> ELSE <<>>)
         \o (IF f.cls = "inf" THEN <<"i", "n", "f">>
             ELSE ReprDigits(NatToStr(f.mant), f.exp))

(***************************************************************************)
(* Value coercion of a CSV cell.                                           *)
(***************************************************************************)
\* The end of _parse_value: the float if float(v) returned one, else v
FloatOrText(t, f) == IF f.k = "float" THEN f ELSE PyStr(t)

\* The integer test of _parse_value
LooksInt(t) == IsDigitStr(t) \/ (Head(t) = "-" /\ IsDigitStr(Tail(t)))

\* _parse_value after v = v.strip(), with the float attempt made before the
\* integer test
ParseStrippedFloatFirst(t) ==
    IF t = <<>> THEN PyStr(<<>>)
    ELSE IF FloatParse(t).k = "float" THEN FloatParse(t)
    ELSE IF LooksInt(t) THEN PyInt(StrToInt(t))
    ELSE PyStr(t)

\* _parse_value after v = v.strip()
ParseStripped(t) ==
    IF t = <<>> THEN PyStr(<<>>)
    ELSE IF LooksInt(t) THEN PyInt(StrToInt(t))
    ELSE FloatOrText(t, FloatParse(t))

\* _parse_value(v): v is a cell text, None (a missing cell) or a list (the
\* surplus cells of a long row)
ParseValue(v) ==
    IF v = PyNone THEN PyNone
    ELSE IF v.k # "str"
    THEN Raise("AttributeError", "'list' object has no attribute 'strip'")
    ELSE ParseStripped(Strip(v.s))

(***************************************************************************)
(* The file system.                                                        *)
(***************************************************************************)
\* A file: absent, a CSV text (characters) or a JSON text (tokens)
Absent == [kind |-> "absent", chars |-> <<>>, toks |-> <<>>]
CsvFile(text) == [kind |-> "csv", chars |-> text, toks |-> <<>>]
JsonFile(toks) == [kind |-> "json", chars |-> <<>>, toks |-> toks]

\* "nodir/x" lies in a directory that does not exist; "locked" is an existing
\* file the process may read and may not write
Paths == {"a.csv", "b.json", "c.csv", "nodir/x", "locked"}
DirMissing(p) == p = "nodir/x"
ReadOnly(p) == p = "locked"

\* open(path, 'r'): Ok, or the exception raised
OpenRead(files, p) ==
    IF DirMissing(p) \/ files[p].kind = "absent"
    THEN Raise("FileNotFoundError", "No such file or directory")
    ELSE Ok

\* open(path, 'w'): Ok (the file is created or truncated), or the exception
OpenWrite(files, p) ==
    IF DirMissing(p) THEN Raise("FileNotFoundError", "No such file or directory")
    ELSE IF ReadOnly(p) THEN Raise("PermissionError", "Permission denied")
    ELSE Ok

(***************************************************************************)
(* The csv module: dialect, reader, DictReader.                            *)
(***************************************************************************)
\* The dialect check of csv.reader and csv.writer: delimiter is a text,
\* escapechar is PyNone or a text
DialectCheck(delimiter, escape_char) ==
    IF Len(delimiter) # 1
    THEN Raise("TypeError", "\"delimiter\" must be a 1-character string")
    ELSE IF escape_char # PyNone /\ Len(escape_char.s) # 1
    THEN Raise("TypeError", "\"escapechar\" must be a 1-character string")
    ELSE Ok

\* s.split(c): the pieces of s between the occurrences of character c
RECURSIVE SplitOn(_, _)
SplitOn(s, c) ==
    IF ~Has(s, c) THEN <<s>>
    ELSE <<Before(s, FirstIndex(s, {c}))>> \o SplitOn(After(s, FirstIndex(s, {c})), c)

\* The pieces of a text between line ends are its lines, but for an empty
\* last piece
LinesOf(pieces) ==
    IF pieces[Len(pieces)] = <<>> THEN Slice(pieces, 1, Len(pieces) - 1)
    ELSE pieces

\* The lines of a text file: a last line may lack its line end
FileLines(text) == LinesOf(SplitOn(text, "\n"))

\* csv.reader on one line: the fields between the delimiters, no field for a
\* blank line.  (The texts of the model hold no quote character and no escape
\* character, the only other characters the reader treats specially.)
ReaderRow(line, delimiter) ==
    IF line = <<>> THEN <<>> ELSE SplitOn(line, delimiter[1])

RowsOfLines(ls, delimiter) == [i \in 1..Len(ls) |-> ReaderRow(ls[i], delimiter)]

ReaderRows(text, delimiter) == RowsOfLines(FileLines(text), delimiter)

\* Position of key in the keys of d, 0 if d has no such key
KeyIndex(d, key) ==
    IF \E i \in 1..Len(d.keys) : d.keys[i] = key
    THEN CHOOSE i \in 1..Len(d.keys) : d.keys[i] = key
    ELSE 0

\* d[key] = val on an insertion-ordered dict
DictSet(d, key, val) ==
    IF KeyIndex(d, key) # 0
    THEN PyDict(d.keys, [d.vals EXCEPT ![KeyIndex(d, key)] = val])
    ELSE PyDict(Append(d.keys, key), Append(d.vals, val))

\* dict.get(key, default)
DictGet(d, key, default) ==
    IF KeyIndex(d, key) # 0 THEN d.vals[KeyIndex(d, key)] ELSE default

\* dict(zip(ks, vs)), from position i on, added to d
RECURSIVE DictZip(_, _, _, _)
DictZip(d, ks, vs, i) ==
    IF i > Len(ks) \/ i > Len(vs) THEN d
    ELSE DictZip(DictSet(d, ks[i], vs[i]), ks, vs, i + 1)

\* d[key] = val for the keys ks[i..]
RECURSIVE DictFill(_, _, _, _)
DictFill(d, ks, val, i) ==
    IF i > Len(ks) THEN d
    ELSE DictFill(DictSet(d, ks[i], val), ks, val, i + 1)

StrList(texts) == [i \in 1..Len(texts) |-> PyStr(texts[i])]

\* The rest of DictReader.__next__, after d = dict(zip(fieldnames, row)):
\* surplus cells go as a list under the key None (restkey), missing cells
\* are None (restval)
ReaderRest(d, fieldnames, row) ==
    IF Len(fieldnames) < Len(row)
    THEN DictSet(d, PyNone, PyList(StrList(Slice(row, Len(fieldnames) + 1, Len(row)))))
    ELSE IF Len(fieldnames) > Len(row)
    THEN DictFill(d, StrList(fieldnames), PyNone, Len(row) + 1)
    ELSE d

\* DictReader.__next__ on one non-blank row
ReaderDict(fieldnames, row) ==
    ReaderRest(DictZip(PyDict(<<>>, <<>>), StrList(fieldnames), StrList(row), 1),
               fieldnames, row)

(***************************************************************************)
(* json.dump: a Python value to JSON tokens.                               *)
(***************************************************************************)
Tok(t, s) == [t |-> t, s |-> s]
Punct(t) == Tok(t, <<>>)

\* The JSON number or literal of a float (allow_nan is on by default)
JsonFloat(f) ==
    IF f.cls = "nan" THEN Punct("NaN")
    ELSE IF f.cls = "inf"
    THEN (IF f.neg THEN Punct("-Infinity") ELSE Punct("Infinity"))
    ELSE Tok("num", FloatRepr(f))

\* A dict key as a JSON member name
JsonKey(key) ==
    IF key = PyNone THEN Tok("str", <<"n", "u", "l", "l">>) ELSE Tok("str", key.s)

RECURSIVE JsonDump(_)
RECURSIVE JsonDumpItems(_, _)
RECURSIVE JsonDumpMembers(_, _)
JsonDump(v) ==
    CASE v.k = "none" -> <<Punct("null")>>
      [] v.k = "bool" -> <<Punct(IF v.b THEN "true" ELSE "false")>>
      [] v.k = "str" -> <<Tok("str", v.s)>>
      [] v.k = "int" -> <<Tok("num", IntToStr(v.n))>>
      [] v.k = "float" -> <<JsonFloat(v)>>
      [] v.k = "list" ->
            <<Punct("[")>> \o JsonDumpItems(v.items, 1) \o <<Punct("]")>>
      [] v.k = "dict" ->
            <<Punct("{")>> \o JsonDumpMembers(v, 1) \o <<Punct("}")>>

JsonDumpItems(xs, i) ==
    IF i > Len(xs) THEN <<>>
    ELSE (IF i > 1 THEN <<Punct(",")>> ELSE <<>>)
         \o JsonDump(xs[i]) \o JsonDumpItems(xs, i + 1)

JsonDumpMembers(d, i) ==
    IF i > Len(d.keys) THEN <<>>
    ELSE (IF i > 1 THEN <<Punct(",")>> ELSE <<>>)
         \o <<JsonKey(d.keys[i]), Punct(":")>> \o JsonDump(d.vals[i])
         \o JsonDumpMembers(d, i + 1)

(***************************************************************************)
(* convert_csv_to_json                                                     *)
(***************************************************************************)
\* An error message: its fixed first part and its variable second part
Msg(head, detail) == <<head, detail>>

\* The outcome of a converter call: the exception that left it ("none": it
\* returned), the message, and the file system after it
Outcome(exc, msg, files) == [exc |-> exc, msg |-> msg, files |-> files]

\* The except clauses of convert_csv_to_json, applied to exception e
CsvToJsonExcept(e, csv_file_path, files) ==
    IF e.exc = "FileNotFoundError"
    THEN Outcome("FileNotFoundError",
                 Msg("Input file not found: ", csv_file_path), files)
    ELSE IF e.exc = "csv.Error"
    THEN Outcome("ValueError", Msg("Invalid CSV format: ", e.msg), files)
    ELSE Outcome("OSError", Msg("Error converting CSV to JSON: ", e.msg), files)

\* The first exception among the results xs of a loop, or the value done
FirstRaise(xs, done) ==
    IF \E i \in 1..Len(xs) : xs[i].k = "raise"
    THEN xs[CHOOSE i \in 1..Len(xs) :
                /\ xs[i].k = "raise"
                /\ \A j \in 1..(i - 1) : xs[j].k # "raise"]
    ELSE done

\* The dict of the parsed values, or the first exception among them
DictOrRaise(keys, vals) == FirstRaise(vals, PyDict(keys, vals))

\* {k: _parse_value(v) for k, v in row.items()}
ParsedRow(row) ==
    DictOrRaise(row.keys, [i \in 1..Len(row.vals) |-> ParseValue(row.vals[i])])

\* The list of the parsed rows, or the first exception among them
ListOrRaise(parsed) == FirstRaise(parsed, PyList(parsed))

NotBlank(row) == row # <<>>

ParsedBodyLastFirst(fieldnames, body) ==
    ListOrRaise([i \in 1..Len(body) |->
                    ParsedRow(ReaderDict(fieldnames, body[Len(body) + 1 - i]))])

\* data.append(...) for each row the DictReader yields from the non-blank
\* rows body
ParsedBody(fieldnames, body) ==
    ListOrRaise([i \in 1..Len(body) |-> ParsedRow(ReaderDict(fieldnames, body[i]))])

\* The loop over the rows after the header row; the reader skips blank rows
ParsedRows(fieldnames, rows) ==
    ParsedBody(fieldnames, SelectSeq(Tail(rows), NotBlank))

\* convert_csv_to_json from the loop's end on: data is the list built, or
\* the exception that left the loop
CsvDataToJson(files, csv_file_path, json_file_path, data) ==
    IF data.k = "raise" THEN CsvToJsonExcept(data, csv_file_path, files)
    ELSE IF OpenWrite(files, json_file_path) # Ok
    THEN CsvToJsonExcept(OpenWrite(files, json_file_path), csv_file_path, files)
    ELSE Outcome("none", <<>>,
                 [files EXCEPT ![json_file_path] = JsonFile(JsonDump(data))])

\* convert_csv_to_json from the fieldnames test on, with a file of no data
\* rows refused like a file of no header row
CsvRowsToJsonNeedsData(files, csv_file_path, json_file_path, rows) ==
    IF rows = <<>> \/ rows[1] = <<>> \/ SelectSeq(Tail(rows), NotBlank) = <<>>
    THEN CsvToJsonExcept(Raise("ValueError", "CSV file has no headers"),
                         csv_file_path, files)
    ELSE CsvDataToJson(files, csv_file_path, json_file_path,
                       ParsedRows(rows[1], rows))

\* convert_csv_to_json from the fieldnames test on: rows are the rows of the
\* csv reader, the first of them (if not blank) being the field names
CsvRowsToJson(files, csv_file_path, json_file_path, rows) ==
    IF rows = <<>> \/ rows[1] = <<>>
    THEN CsvToJsonExcept(Raise("ValueError", "CSV file has no headers"),
                         csv_file_path, files)
    ELSE CsvDataToJson(files, csv_file_path, json_file_path,
                       ParsedRows(rows[1], rows))

\* convert_csv_to_json with the reader made before the input is opened
ConvertCsvToJsonReaderFirst(files, csv_file_path, json_file_path, delimiter, escape_char) ==
    IF DialectCheck(delimiter, escape_char) # Ok
    THEN CsvToJsonExcept(DialectCheck(delimiter, escape_char), csv_file_path, files)
    ELSE IF OpenRead(files, csv_file_path) # Ok
    THEN CsvToJsonExcept(OpenRead(files, csv_file_path), csv_file_path, files)
    ELSE CsvRowsToJson(files, csv_file_path, json_file_path,
                       ReaderRows(files[csv_file_path].chars, delimiter))

ConvertCsvToJson(files, csv_file_path, json_file_path, delimiter, escape_char) ==
    IF OpenRead(files, csv_file_path) # Ok
    THEN CsvToJsonExcept(OpenRead(files, csv_file_path), csv_file_path, files)
    ELSE IF DialectCheck(delimiter, escape_char) # Ok
    THEN CsvToJsonExcept(DialectCheck(delimiter, escape_char), csv_file_path, files)
    ELSE CsvRowsToJson(files, csv_file_path, json_file_path,
                       ReaderRows(files[csv_file_path].chars, delimiter))

(***************************************************************************)
(* json.load: JSON tokens to a Python value.                               *)
(***************************************************************************)
\* The number pattern of the json scanner on the parts of a text without
\* its minus sign: (0|[1-9][0-9]*)(.[0-9]+)?([eE][-+]?[0-9]+)?
JsonPartsOk(p) ==
    /\ IsDigitStr(p.ip)
    /\ Len(p.ip) > 1 => Head(p.ip) # "0"
    /\ p.hasDot => IsDigitStr(p.fp)
    /\ p.hasExp => ExponentOk(p.x)

JsonNumberOk(s) == JsonPartsOk(DecimalParts(IF IsNegative(s) THEN Tail(s) ELSE s))

\* A number token read: float() of a text with a fraction or an exponent,
\* int() of any other
JsonNumber(s) ==
    IF FirstIndex(s, {".", "e", "E"}) # 0 THEN FloatParse(s)
    ELSE PyInt(StrToInt(s))

\* What the decoder returns at a position: the value and the position after
\* it, or a failure
Parsed(val, next) == [ok |-> TRUE, val |-> val, next |-> next]
ParseFail == [ok |-> FALSE, val |-> PyNone, next |-> 0]

TokAt(toks, i) == IF i <= Len(toks) THEN toks[i].t ELSE "end"

RECURSIVE JsonParseAt(_, _)
RECURSIVE JsonParseItems(_, _, _)
RECURSIVE JsonParseMembers(_, _, _)
JsonParseAt(toks, i) ==
    LET t == TokAt(toks, i)
    IN  CASE t = "str" -> Parsed(PyStr(toks[i].s), i + 1)
          [] t = "num" -> IF JsonNumberOk(toks[i].s)
                          THEN Parsed(JsonNumber(toks[i].s), i + 1)
                          ELSE ParseFail
          [] t = "true" -> Parsed(PyBool(TRUE), i + 1)
          [] t = "false" -> Parsed(PyBool(FALSE), i + 1)
          [] t = "null" -> Parsed(PyNone, i + 1)
          [] t = "NaN" -> Parsed(PyNaN, i + 1)
          [] t = "Infinity" -> Parsed(PyInf(FALSE), i + 1)
          [] t = "-Infinity" -> Parsed(PyInf(TRUE), i + 1)
          [] t = "[" -> IF TokAt(toks, i + 1) = "]"
                        THEN Parsed(PyList(<<>>), i + 2)
                        ELSE JsonParseItems(toks, i + 1, <<>>)
          [] t = "{" -> IF TokAt(toks, i + 1) = "}"
                        THEN Parsed(PyDict(<<>>, <<>>), i + 2)
                        ELSE JsonParseMembers(toks, i + 1, PyDict(<<>>, <<>>))
          [] OTHER -> ParseFail

\* The items of an array from position i on, after the items acc
JsonParseItems(toks, i, acc) ==
    LET item == JsonParseAt(toks, i)
        sep == TokAt(toks, item.next)
    IN  IF ~item.ok THEN ParseFail
        ELSE IF sep = "," THEN JsonParseItems(toks, item.next + 1, Append(acc, item.val))
        ELSE IF sep = "]" THEN Parsed(PyList(Append(acc, item.val)), item.next + 1)
        ELSE ParseFail

\* The members of an object from position i on, after the members of d; a
\* repeated name keeps its place and takes the later value
JsonParseMembers(toks, i, d) ==
    LET member == JsonParseAt(toks, i + 2)
        sep == TokAt(toks, member.next)
    IN  IF TokAt(toks, i) # "str" \/ TokAt(toks, i + 1) # ":" THEN ParseFail
        ELSE IF ~member.ok THEN ParseFail
        ELSE IF sep = ","
        THEN JsonParseMembers(toks, member.next + 1,
                              DictSet(d, PyStr(toks[i].s), member.val))
        ELSE IF sep = "}"
        THEN Parsed(DictSet(d, PyStr(toks[i].s), member.val), member.next + 1)
        ELSE ParseFail

\* The value the decoder read from a text of n tokens, or JSONDecodeError
\* (also for text after the value)
Loaded(r, n) ==
    IF ~r.ok THEN Raise("JSONDecodeError", "Expecting value")
    ELSE IF r.next # n + 1 THEN Raise("JSONDecodeError", "Extra data")
    ELSE r.val

\* json.load
JsonLoad(toks) == Loaded(JsonParseAt(toks, 1), Len(toks))

(***************************************************************************)
(* str() and repr() of Python values, and the csv writer.                  *)
(***************************************************************************)
\* The quote repr(str) puts around s: single, unless the text holds one and
\* no double quote
ReprQuote(s) == IF Has(s, "'") /\ ~Has(s, "\"") THEN "\"" ELSE "'"

\* A character inside repr(str) with quote q
ReprChar(c, q) ==
    CASE c = "\\" -> <<"\\", "\\">>
      [] c = "\n" -> <<"\\", "n">>
      [] c = "\t" -> <<"\\", "t">>
      [] c = "\r" -> <<"\\", "r">>
      [] c = q -> <<"\\", c>>
      [] OTHER -> <<c>>

ReprStr(s) ==
    <<ReprQuote(s)>> \o Concat([i \in 1..Len(s) |-> ReprChar(s[i], ReprQuote(s))])
    \o <<ReprQuote(s)>>

RECURSIVE PyRepr(_)
RECURSIVE PyReprItems(_, _)
RECURSIVE PyReprMembers(_, _)
PyRepr(v) ==
    CASE v.k = "none" -> <<"N", "o", "n", "e">>
      [] v.k = "bool" -> IF v.b THEN <<"T", "r", "u", "e">>
                         ELSE <<"F", "a", "l", "s", "e">>
      [] v.k = "str" -> ReprStr(v.s)
      [] v.k = "int" -> IntToStr(v.n)
      [] v.k = "float" -> FloatRepr(v)
      [] v.k = "list" -> <<"[">> \o PyReprItems(v.items, 1) \o <<"]">>
      [] v.k = "dict" -> <<"{">> \o PyReprMembers(v, 1) \o <<"}">>

PyReprItems(xs, i) ==
    IF i > Len(xs) THEN <<>>
    ELSE (IF i > 1 THEN <<",", " ">> ELSE <<>>)
         \o PyRepr(xs[i]) \o PyReprItems(xs, i + 1)

PyReprMembers(d, i) ==
    IF i > Len(d.keys) THEN <<>>
    ELSE (IF i > 1 THEN <<",", " ">> ELSE <<>>)
         \o PyRepr(d.keys[i]) \o <<":", " ">> \o PyRepr(d.vals[i])
         \o PyReprMembers(d, i + 1)

\* The text the csv writer makes of a field value: "" for None, the text of a
\* str, str(value) of anything else
FieldText(v) ==
    IF v.k = "none" THEN <<>>
    ELSE IF v.k = "str" THEN v.s
    ELSE PyRepr(v)

\* c is the escape character of the writer
IsEscape(c, escape_char) == escape_char # PyNone /\ c = escape_char.s[1]

\* A character of a field as written: a quote is doubled, the escape
\* character is escaped
WriteChar(c, escape_char) ==
    IF c = "\"" THEN <<"\"", "\"">>
    ELSE IF IsEscape(c, escape_char) THEN <<escape_char.s[1], c>>
    ELSE <<c>>

\* QUOTE_MINIMAL: a field is quoted when it holds the delimiter, a quote or a
\* line-end character, or is the empty only field of its row
NeedsQuotes(text, delimiter, escape_char, only) ==
    \/ \E i \in 1..Len(text) :
          /\ text[i] \in {delimiter[1], "\"", "\n", "\r"}
          /\ text[i] = "\"" \/ ~IsEscape(text[i], escape_char)
    \/ (text = <<>> /\ only)

\* One field as written
WriteField(text, delimiter, escape_char, only) ==
    (IF NeedsQuotes(text, delimiter, escape_char, only) THEN <<"\"">> ELSE <<>>)
    \o Concat([i \in 1..Len(text) |-> WriteChar(text[i], escape_char)])
    \o (IF NeedsQuotes(text, delimiter, escape_char, only) THEN <<"\"">> ELSE <<>>)

RECURSIVE JoinFields(_, _)
JoinFields(fields, delimiter) ==
    IF fields = <<>> THEN <<>>
    ELSE IF Len(fields) = 1 THEN fields[1]
    ELSE fields[1] \o delimiter \o JoinFields(Tail(fields), delimiter)

\* writer.writerow: the fields joined by the delimiter, and the line end
WriteRow(values, delimiter, escape_char) ==
    JoinFields([i \in 1..Len(values) |->
                    WriteField(FieldText(values[i]), delimiter, escape_char,
                               Len(values) = 1)],
               delimiter) \o <<"\n">>

\* The values of dict d under the field names, "" for a missing one
RowValuesInKeyOrder(fieldnames, d) == d.vals
RowValues(fieldnames, d) ==
    [j \in 1..Len(fieldnames) |-> DictGet(d, fieldnames[j], PyStr(<<>>))]

\* DictWriter.writeheader() and writerows(data)
WriteDicts(fieldnames, data, delimiter, escape_char) ==
    Concat([i \in 1..(Len(data) + 1) |->
               WriteRow(IF i = 1 THEN fieldnames
                        ELSE RowValues(fieldnames, data[i - 1]),
                        delimiter, escape_char)])

(***************************************************************************)
(* convert_json_to_csv                                                     *)
(***************************************************************************)
\* The except clauses of convert_json_to_csv, applied to exception e
JsonToCsvExcept(e, json_file, files) ==
    IF e.exc = "FileNotFoundError"
    THEN Outcome("FileNotFoundError", Msg("Input file not found: ", json_file), files)
    ELSE IF e.exc = "JSONDecodeError"
    THEN Outcome("ValueError", Msg("Invalid JSON format: ", e.msg), files)
    ELSE Outcome("OSError", Msg("Error converting JSON to CSV: ", e.msg), files)

\* The AttributeError of v.keys() on a value that is no dict
NoKeys(v) ==
    Raise("AttributeError",
          CASE v.k = "none" -> "'NoneType' object has no attribute 'keys'"
            [] v.k = "bool" -> "'bool' object has no attribute 'keys'"
            [] v.k = "str" -> "'str' object has no attribute 'keys'"
            [] v.k = "int" -> "'int' object has no attribute 'keys'"
            [] v.k = "float" -> "'float' object has no attribute 'keys'"
            [] v.k = "list" -> "'list' object has no attribute 'keys'")

KeySet(d) == {d.keys[i] : i \in 1..Len(d.keys)}

\* The test of the validation loop on item
FieldsDiffer(item, first) == item.k # "dict" \/ KeySet(item) # KeySet(first)

\* The exception of the validation loop at an item that fails its test
FieldsError(item) ==
    IF item.k # "dict" THEN NoKeys(item)
    ELSE Raise("ValueError", "All objects in JSON array must have the same fields")

\* The validation loop over data[1:]: Ok, or the exception of the first item
\* that has no keys() or whose key set is not that of the first item
SameFields(data) ==
    IF \E i \in 2..Len(data) : FieldsDiffer(data[i], data[1])
    THEN FieldsError(data[CHOOSE i \in 2..Len(data) :
                             /\ FieldsDiffer(data[i], data[1])
                             /\ \A j \in 2..(i - 1) : ~FieldsDiffer(data[j], data[1])])
    ELSE Ok

\* The file system with path p holding an empty file
Truncated(files, p) == [files EXCEPT ![p] = CsvFile(<<>>)]

JsonCheckedToCsvOpensFirst(files, json_file, csv_file, delimiter, escape_char, data, check) ==
    IF OpenWrite(files, csv_file) # Ok
    THEN JsonToCsvExcept(OpenWrite(files, csv_file), json_file, files)
    ELSE IF check # Ok THEN JsonToCsvExcept(check, json_file, Truncated(files, csv_file))
    ELSE IF DialectCheck(delimiter, escape_char) # Ok
    THEN JsonToCsvExcept(DialectCheck(delimiter, escape_char), json_file,
                         Truncated(files, csv_file))
    ELSE Outcome("none", <<>>,
                 [files EXCEPT ![csv_file] =
                     CsvFile(WriteDicts(data[1].keys, data, delimiter, escape_char))])

\* convert_json_to_csv from the opening of the output on: check is what the
\* validation loop gave
JsonCheckedToCsv(files, json_file, csv_file, delimiter, escape_char, data, check) ==
    IF check # Ok THEN JsonToCsvExcept(check, json_file, files)
    ELSE IF OpenWrite(files, csv_file) # Ok
    THEN JsonToCsvExcept(OpenWrite(files, csv_file), json_file, files)
    ELSE IF DialectCheck(delimiter, escape_char) # Ok
    THEN JsonToCsvExcept(DialectCheck(delimiter, escape_char), json_file,
                         Truncated(files, csv_file))
    ELSE Outcome("none", <<>>,
                 [files EXCEPT ![csv_file] =
                     CsvFile(WriteDicts(data[1].keys, data, delimiter, escape_char))])

\* convert_json_to_csv on the list data, with an empty list leaving the output
\* as it is
JsonDataToCsvKeepsOutput(files, json_file, csv_file, delimiter, escape_char, data) ==
    IF data = <<>>
    THEN (IF OpenWrite(files, csv_file) # Ok
          THEN JsonToCsvExcept(OpenWrite(files, csv_file), json_file, files)
          ELSE Outcome("none", <<>>, files))
    ELSE IF data[1].k # "dict"
    THEN JsonToCsvExcept(NoKeys(data[1]), json_file, files)
    ELSE JsonCheckedToCsv(files, json_file, csv_file, delimiter, escape_char,
                          data, SameFields(data))

\* convert_json_to_csv on the list data
JsonDataToCsv(files, json_file, csv_file, delimiter, escape_char, data) ==
    IF data = <<>>
    THEN (IF OpenWrite(files, csv_file) # Ok
          THEN JsonToCsvExcept(OpenWrite(files, csv_file), json_file, files)
          ELSE Outcome("none", <<>>, Truncated(files, csv_file)))
    ELSE IF data[1].k # "dict"
    THEN JsonToCsvExcept(NoKeys(data[1]), json_file, files)
    ELSE JsonCheckedToCsv(files, json_file, csv_file, delimiter, escape_char,
                          data, SameFields(data))

\* convert_json_to_csv from json.load on: loaded is its value or exception
JsonLoadedToCsv(files, json_file, csv_file, delimiter, escape_char, loaded) ==
    IF loaded.k = "raise" THEN JsonToCsvExcept(loaded, json_file, files)
    ELSE IF loaded.k \notin {"dict", "list"}
    THEN JsonToCsvExcept(
             Raise("ValueError", "JSON must contain an object or array of objects"),
             json_file, files)
    ELSE JsonDataToCsv(files, json_file, csv_file, delimiter, escape_char,
                       IF loaded.k = "dict" THEN <<loaded>> ELSE loaded.items)

ConvertJsonToCsv(files, json_file, csv_file, delimiter, escape_char) ==
    IF OpenRead(files, json_file) # Ok
    THEN JsonToCsvExcept(OpenRead(files, json_file), json_file, files)
    ELSE JsonLoadedToCsv(files, json_file, csv_file, delimiter, escape_char,
                         JsonLoad(files[json_file].toks))

(***************************************************************************)
(* The converters as operations on the file system.                        *)
(***************************************************************************)
Delimiters == {<<",">>, <<";">>, <<",", ",">>}
EscapeChars == {PyNone, PyStr(<<"\\">>)}

NoFiles == [p \in Paths |-> Absent]
NotCalled == [k |-> "notcalled"]
NoResult == [op |-> "none"]
NoProcess == [pc |-> "none"]

\* The state after a converter call with outcome o
Called(op, inp, out, delimiter, escape_char, o) ==
    /\ fs' = o.files
    /\ result' = [op |-> op, inp |-> inp, out |-> out, delimiter |-> delimiter,
                  escape_char |-> escape_char, exc |-> o.exc, msg |-> o.msg,
                  before |-> fs]
    /\ calls' = calls + 1
    /\ UNCHANGED <<cellText, cellValue, proc>>

\* A call of convert_csv_to_json on a path that holds no JSON text
CallCsvToJson(inp, out, delimiter, escape_char) ==
    /\ fs[inp].kind # "json"
    /\ Called("csv_to_json", inp, out, delimiter, escape_char,
              ConvertCsvToJson(fs, inp, out, delimiter, escape_char))

\* A call of convert_json_to_csv on a path that holds no CSV text
CallJsonToCsv(inp, out, delimiter, escape_char) ==
    /\ fs[inp].kind # "csv"
    /\ Called("json_to_csv", inp, out, delimiter, escape_char,
              ConvertJsonToCsv(fs, inp, out, delimiter, escape_char))

(***************************************************************************)
(* The coercion on its own: a cell text is drawn, _parse_value is applied. *)
(***************************************************************************)
CellAlphabet == {"0", "1", "5", "-", "+", ".", "e", "_", " ", "a"}

\* The cell texts of test_numeric_edge_cases (tests/test_csv_to_json.py)
EdgeCaseTexts ==
    { <<"N", "a", "N">>,
      <<"I", "n", "f", "i", "n", "i", "t", "y">>,
      <<"0", "x", "F", "F">>,
      <<"0", "o", "7", "7", "7">>,
      <<"0", "b", "1", "0", "1", "0">>,
      <<"1", "2", "_", "3", "4", "5">>,
      <<"1", ".", "2", "3", "e", "4">>,
      <<"-", "1", ".", "2", "3", "e", "-", "4">>,
      <<"+", "1", "2", "3">>,
      <<"-", "4", "2">> }

CellTexts == TextsUpTo(CellAlphabet, MaxCellLen) \cup EdgeCaseTexts

InitParse ==
    /\ cellText \in {PyStr(s) : s \in CellTexts} \cup {PyNone}
    /\ cellValue = NotCalled
    /\ fs = NoFiles
    /\ result = NoResult
    /\ calls = 0
    /\ proc = NoProcess

\* One call of _parse_value on the drawn cell
CallParseValue ==
    /\ cellValue = NotCalled
    /\ cellValue' = ParseValue(cellText)
    /\ UNCHANGED <<cellText, fs, result, calls, proc>>

NextParse == CallParseValue

SpecParse == InitParse /\ [][NextParse]_vars

(***************************************************************************)
(* CSV to JSON on every short CSV text.                                    *)
(***************************************************************************)
CsvAlphabet == {"a", "1", "0", ".", ",", " ", "\n"}

\* A file of one column "a" and one row, holding an edge-case cell
EdgeCaseFile(cell) == <<"a", "\n">> \o cell \o <<"\n">>

\* The CSV texts of at most n characters, and the edge-case files
CsvTexts(n) == TextsUpTo(CsvAlphabet, n) \cup {EdgeCaseFile(t) : t \in EdgeCaseTexts}

\* The file system with the file f at path p and nothing else
OnlyFile(p, f) == [NoFiles EXCEPT ![p] = f]

InitCsv ==
    /\ fs \in {OnlyFile("a.csv", CsvFile(text)) : text \in CsvTexts(MaxCsvLen)}
    /\ result = NoResult
    /\ calls = 0
    /\ proc = NoProcess
    /\ cellText = PyNone
    /\ cellValue = NotCalled

NextCsv ==
    /\ calls = 0
    /\ \E d \in Delimiters, e \in EscapeChars : CallCsvToJson("a.csv", "b.json", d, e)

SpecCsv == InitCsv /\ [][NextCsv]_vars

(***************************************************************************)
(* CSV to JSON and back: a.csv -> b.json -> c.csv.                         *)
(***************************************************************************)
\* The dataset of test_round_trip_conversion (tests/test_integration.py)
RoundTripTestText ==
    <<"n", "a", "m", "e", ",", "a", "g", "e", ",", "s", "a", "l", "a", "r",
      "y", ",", "a", "c", "t", "i", "v", "e", "\n", "A", "l", "i", "c",
      "e", ",", "3", "0", ",", "7", "5", "0", "0", "0", ".", "5", "0", ",",
      "t", "r", "u", "e", "\n", "B", "o", "b", ",", "2", "5", ",", "6",
      "5", "0", "0", "0", ".", "0", "0", ",", "f", "a", "l", "s", "e",
      "\n">>

InitRoundTrip ==
    /\ fs \in {OnlyFile("a.csv", CsvFile(text)) :
                  text \in TextsUpTo(CsvAlphabet, MaxCsvLen) \cup {RoundTripTestText}}
    /\ result = NoResult
    /\ calls = 0
    /\ proc = NoProcess
    /\ cellText = PyNone
    /\ cellValue = NotCalled

\* The second conversion runs when the first has returned, with its delimiter
NextRoundTrip ==
    \E d \in Delimiters, e \in EscapeChars :
        \/ calls = 0 /\ CallCsvToJson("a.csv", "b.json", d, e)
        \/ /\ calls = 1
           /\ result.exc = "none"
           /\ d = result.delimiter
           /\ CallJsonToCsv("b.json", "c.csv", d, e)

SpecRoundTrip == InitRoundTrip /\ [][NextRoundTrip]_vars

(***************************************************************************)
(* JSON to CSV on JSON documents: the dumps of small values, and what is   *)
(* left of them when a token is lost or is no JSON token.                  *)
(***************************************************************************)
FieldValues == {PyInt(1), PyNaN}

KeyOrders ==
    {<<>>, <<PyStr(<<"a">>)>>, <<PyStr(<<"b">>)>>,
     <<PyStr(<<"a">>), PyStr(<<"b">>)>>, <<PyStr(<<"b">>), PyStr(<<"a">>)>>}

JsonObjects ==
    UNION {{PyDict(ks, vs) : vs \in [1..Len(ks) -> FieldValues]} : ks \in KeyOrders}

JsonScalars ==
    {PyInt(1), PyFloat("fin", FALSE, 15, -1), PyStr(<<"x">>), PyBool(TRUE), PyNone}

\* An array is a list of at most MaxRecords items
JsonArrays ==
    {PyList(xs) : xs \in TextsUpTo(JsonObjects \cup {PyInt(1), PyNone}, MaxRecords)}

\* The field values of test_complex_data_types and test_nested_structures
\* (tests/test_json_to_csv.py), in small
NestedValues ==
    { PyNone, PyBool(TRUE), PyBool(FALSE), PyInt(-3), PyStr(<<"x">>),
      PyFloat("fin", FALSE, 15, -1),
      PyList(<<>>), PyDict(<<>>, <<>>),
      PyList(<<PyInt(1), PyInt(2)>>),
      PyDict(<<PyStr(<<"k">>)>>, <<PyStr(<<"v">>)>>),
      PyList(<<PyList(<<PyInt(1)>>), PyDict(<<PyStr(<<"x">>)>>, <<PyStr(<<"y">>)>>)>>),
      PyDict(<<PyStr(<<"k">>)>>, <<PyDict(<<PyStr(<<"l">>)>>, <<PyInt(1)>>)>>) }

\* Texts with a character that matters to the csv writer
SpecialTexts == {<<"x", c, "y">> : c \in {",", ";", "\n", "\t", "\"", "\\"}}

JsonDocuments ==
    JsonScalars \cup JsonObjects \cup JsonArrays
    \cup {PyDict(<<PyStr(<<"a">>)>>, <<v>>) : v \in NestedValues}
    \cup {PyDict(<<PyStr(<<"a">>)>>, <<PyStr(t)>>) : t \in SpecialTexts}

\* A text without its token i; a text with a token that is none of JSON at i
Drop(toks, i) == Slice(toks, 1, i - 1) \o Slice(toks, i + 1, Len(toks))
Spoil(toks, i) == [toks EXCEPT ![i] = Punct("bad")]

Damaged(toks) ==
    {Drop(toks, i) : i \in 1..Len(toks)} \cup {Spoil(toks, i) : i \in {1, Len(toks)}}

\* The JSON texts of the documents docs, whole and damaged
JsonTexts(docs) == {JsonDump(v) : v \in docs} \cup UNION {Damaged(JsonDump(v)) : v \in docs}

InitJson ==
    /\ fs \in {OnlyFile("b.json", JsonFile(toks)) : toks \in JsonTexts(JsonDocuments)}
    /\ result = NoResult
    /\ calls = 0
    /\ proc = NoProcess
    /\ cellText = PyNone
    /\ cellValue = NotCalled

NextJson ==
    /\ calls = 0
    /\ \E d \in Delimiters, e \in EscapeChars : CallJsonToCsv("b.json", "c.csv", d, e)

SpecJson == InitJson /\ [][NextJson]_vars

(***************************************************************************)
(* One call of either converter, on any paths, in a small file system.     *)
(***************************************************************************)
SmallCsv == <<"a", "\n", "1", "\n">>
SmallJson == JsonDump(PyList(<<PyDict(<<PyStr(<<"a">>)>>, <<PyInt(1)>>)>>))

\* A CSV text with a data row longer than its header; a JSON text of a number;
\* a JSON text of two objects with different keys
LongRowCsv == <<"a", "\n", "1", ",", "1", "\n">>
NumberJson == JsonDump(PyInt(1))
MixedJson == JsonDump(PyList(<<PyDict(<<PyStr(<<"a">>)>>, <<PyInt(1)>>), PyDict(<<PyStr(<<"b">>)>>, <<PyInt(1)>>)>>))

InitFiles ==
    {[NoFiles EXCEPT !["a.csv"] = a, !["b.json"] = b, !["c.csv"] = c, !["locked"] = l] :
        a \in {Absent, CsvFile(SmallCsv), CsvFile(<<>>), CsvFile(LongRowCsv)},
        b \in {Absent, JsonFile(SmallJson), JsonFile(<<Punct("bad")>>),
               JsonFile(<<Punct("["), Punct("]")>>), JsonFile(NumberJson),
               JsonFile(MixedJson)},
        c \in {Absent, CsvFile(SmallCsv)},
        l \in {CsvFile(SmallCsv), JsonFile(SmallJson)}}

Init ==
    /\ fs \in InitFiles
    /\ result = NoResult
    /\ calls = 0
    /\ proc = NoProcess
    /\ cellText = PyNone
    /\ cellValue = NotCalled

Next ==
    /\ calls = 0
    /\ \E inp \in Paths, out \in Paths, d \in Delimiters, e \in EscapeChars :
          \/ CallCsvToJson(inp, out, d, e)
          \/ CallJsonToCsv(inp, out, d, e)

Spec == Init /\ [][Next]_vars

(***************************************************************************)
(* utils/escape.py: escape_characters and handle_escape_characters, on     *)
(* their own: a text and an escape character are drawn, the text is        *)
(* escaped, and the escaped text is handled.                               *)
(***************************************************************************)
MaxTextLen == 3

\* The character U+0000
NUL == "NUL"

\* str.replace(old, new) for a non-empty old: the occurrences of old, found
\* from left to right without overlap, are replaced
RECURSIVE Replace(_, _, _)
Replace(s, old, new) ==
    IF Len(s) < Len(old) THEN s
    ELSE IF SubSeq(s, 1, Len(old)) = old
    THEN new \o Replace(SubSeq(s, Len(old) + 1, Len(s)), old, new)
    ELSE <<Head(s)>> \o Replace(Tail(s), old, new)

escape_characters(input_string, escape_char) ==
    Replace(Replace(Replace(Replace(Replace(Replace(input_string,
        <<escape_char>>, <<escape_char, escape_char>>),
        <<"\n">>, <<escape_char, "n">>),
        <<"\t">>, <<escape_char, "t">>),
        <<",">>, <<escape_char, ",">>),
        <<"|">>, <<escape_char, "|">>),
        <<";">>, <<escape_char, ";">>)

handle_escape_characters(input_string, escape_char) ==
    Replace(Replace(Replace(Replace(Replace(Replace(Replace(input_string,
        <<escape_char, escape_char>>, <<NUL>>),
        <<escape_char, "n">>, <<"\n">>),
        <<escape_char, "t">>, <<"\t">>),
        <<escape_char, ",">>, <<",">>),
        <<escape_char, "|">>, <<"|">>),
        <<escape_char, ";">>, <<";">>),
        <<NUL>>, <<escape_char>>)

EscapeAlphabet == {"\\", "n", "t", ",", "|", ";", "\n", "\t", NUL, "a"}
EscapeArgs == {"\\", "#", ",", "n"}

CallEscape ==
    /\ result.op = "none"
    /\ \E text \in TextsUpTo(EscapeAlphabet, MaxTextLen), e \in EscapeArgs :
          result' = [op |-> "escape_characters", text |-> text, escape_char |-> e,
                     escaped |-> escape_characters(text, e)]
    /\ calls' = calls + 1
    /\ UNCHANGED <<cellText, cellValue, fs, proc>>

CallHandleEscape ==
    /\ result.op = "escape_characters"
    /\ result' = [op |-> "handle_escape_characters", text |-> result.text,
                  escape_char |-> result.escape_char, escaped |-> result.escaped,
                  unescaped |-> handle_escape_characters(result.escaped, result.escape_char)]
    /\ calls' = calls + 1
    /\ UNCHANGED <<cellText, cellValue, fs, proc>>

InitEscape ==
    /\ fs = NoFiles
    /\ result = NoResult
    /\ calls = 0
    /\ proc = NoProcess
    /\ cellText = PyNone
    /\ cellValue = NotCalled

NextEscape == CallEscape \/ CallHandleEscape

SpecEscape == InitEscape /\ [][NextEscape]_vars

(***************************************************************************)
(* The command line: file_converter.cli (main, process_bulk_conversion)    *)
(* and file_converter.__main__ (main).  A process is its arguments, its    *)
(* position (pc), the list glob returned, the conversions attempted so     *)
(* far, what it printed on the error stream and its exit code.             *)
(***************************************************************************)
Commands == {"csv-to-json", "json-to-csv"}

\* The files of the working directory and of its directory "sub", as
\* directory, stem and suffix
Names ==
    {<<"", "a", ".csv">>, <<"", "c", ".csv">>, <<"sub/", "a", ".csv">>,
     <<"", "b", ".json">>, <<"", "d", ".json">>}
PathOf(n) == n[1] \o n[2] \o n[3]
InputPaths == {PathOf(n) : n \in Names}

\* Path(input_file).stem and .suffix, and the directory of the file
Stem(p) == (CHOOSE n \in Names : PathOf(n) = p)[2]
Suffix(p) == (CHOOSE n \in Names : PathOf(n) = p)[3]
Parent(p) == (CHOOSE n \in Names : PathOf(n) = p)[1]

\* The output file of the bulk conversion of input_file
OutputExt(command) == IF command = "csv-to-json" THEN ".json" ELSE ".csv"
OutputFile(command, output_dir, input_file) == output_dir \o "/" \o Stem(input_file) \o OutputExt(command)

\* "locked" is a regular file, "out" a directory that exists or can be made
OutputDirs == {"out", "locked"}
OutputArgs == {"o.txt", "nodir/x", "locked"}
CliPaths == InputPaths \cup OutputArgs \cup {OutputFile(c, "out", p) : c \in Commands, p \in InputPaths}

\* os.path.isfile
IsFile(files, p) == p \in DOMAIN files /\ ~DirMissing(p) /\ files[p].kind # "absent"

\* os.makedirs(output_dir, exist_ok=True)
MakeDirs(files, output_dir) ==
    IF IsFile(files, output_dir) THEN Raise("FileExistsError", <<"File exists: ", output_dir>>) ELSE Ok

\* glob.glob(input_pattern, recursive=True): the files that match the
\* pattern, "*.csv" in the working directory and "**/*.csv" in it and in the
\* directories below it, in the order the directories list them, which is
\* any order
Patterns(command) ==
    {"*" \o OutputExt(c) : c \in Commands \ {command}}
    \cup {"**/*" \o OutputExt(c) : c \in Commands \ {command}} \cup {"x*"}
Matches(files, pattern) ==
    {p \in InputPaths :
        /\ IsFile(files, p)
        /\ \/ pattern = "*" \o Suffix(p) /\ Parent(p) = ""
           \/ pattern = "**/*" \o Suffix(p)}
Orders(S) == {l \in [1..Cardinality(S) -> S] : \A i, j \in 1..Cardinality(S) : l[i] = l[j] => i = j}

\* The escape argument: cli.main has the default "\\", __main__.main None
Escapes(entry) == IF entry = "cli" THEN {PyStr(<<"\\">>)} ELSE EscapeChars

\* A process that has parsed its arguments
Started(entry, mode, command, inp, out, delimiter, escape) ==
    [pc |-> "main", entry |-> entry, mode |-> mode, command |-> command,
     inp |-> inp, out |-> out, delimiter |-> delimiter, escape |-> escape,
     input_files |-> <<>>, attempted |-> <<>>, converter |-> "notcalled",
     stderr |-> <<>>, code |-> -1]

\* print(..., file=sys.stderr); the end of the process with an exit code
Printed(p, head, msg) == [p EXCEPT !.stderr = Append(@, [head |-> head, msg |-> msg])]
Exit(p, code) == [p EXCEPT !.pc = "exit", !.code = code]

\* The except clauses of cli.main, applied to exception e
MainExcept(p, e) ==
    IF e.exc \in {"FileNotFoundError", "ValueError"}
    THEN Exit(Printed(p, "Error: ", e.msg), 1)
    ELSE Exit(Printed(p, "Error: An unexpected error occurred: ", e.msg), 1)

\* An exception that leaves main: the interpreter prints the traceback and
\* ends the process with status 1
Unhandled(p, e) == [Printed(p, "Traceback (most recent call last):", e.msg) EXCEPT !.pc = "raised", !.code = 1]

\* The converter a command names, called
Convert(command, files, inp, out, delimiter, escape) ==
    IF command = "csv-to-json"
    THEN ConvertCsvToJson(files, inp, out, delimiter, escape)
    ELSE ConvertJsonToCsv(files, inp, out, delimiter, escape)

Converted(p, o) == [p EXCEPT !.converter = o.exc]

\* process_bulk_conversion up to its loop
BulkStart(p, files, input_files) ==
    IF MakeDirs(files, p.out).k = "raise" THEN MainExcept(p, MakeDirs(files, p.out))
    ELSE IF input_files = <<>>
    THEN MainExcept(p, Raise("ValueError", <<"No files found matching pattern: ", p.inp>>))
    ELSE [p EXCEPT !.pc = "loop", !.input_files = input_files]

\* The try statement of the loop, after the converter call with outcome o
Attempted(p, input_file, o) == [p EXCEPT !.attempted = Append(@, [file |-> input_file, exc |-> o.exc])]
BulkExceptRaises(p, input_file, e) == MainExcept(p, e)
BulkExcept(p, input_file, e) == Printed(p, "Error processing ", <<input_file, e.msg>>)
BulkAttempt(p, input_file, o) ==
    IF o.exc = "none" THEN Attempted(p, input_file, o)
    ELSE BulkExcept(Attempted(p, input_file, o), input_file, o)

BulkTried(input_file, o) ==
    /\ calls' = calls + 1
    /\ fs' = o.files
    /\ proc' = BulkAttempt(proc, input_file, o)
    /\ UNCHANGED <<cellText, cellValue, result>>

\* The single-file branch of cli.main
MainFileDone(p, o) ==
    IF o.exc = "none" THEN Exit(Converted(p, o), 0) ELSE MainExcept(Converted(p, o), o)

MainFile(p, o) ==
    IF ~IsFile(fs, p.inp)
    THEN /\ proc' = MainExcept(p, Raise("FileNotFoundError", <<"Input file not found: ", p.inp>>))
         /\ UNCHANGED <<fs, cellText, cellValue, result, calls>>
    ELSE /\ proc' = MainFileDone(p, o)
         /\ fs' = o.files
         /\ UNCHANGED <<cellText, cellValue, result, calls>>

\* __main__.main
ModuleFile(p, o) ==
    /\ proc' = (IF o.exc = "none" THEN Exit(Converted(p, o), 0) ELSE Unhandled(Converted(p, o), o))
    /\ fs' = o.files
    /\ UNCHANGED <<cellText, cellValue, result, calls>>

FileArgs(command) == {p \in InputPaths : Suffix(p) # OutputExt(command)} \cup {"nodir/x"}

\* cli.main with --pattern and --output-dir, up to the loop
CliMainBulk ==
    /\ proc.pc = "none"
    /\ \E command \in Commands, output_dir \in OutputDirs, d \in Delimiters :
         \E pattern \in Patterns(command), e \in Escapes("cli") :
            \E input_files \in Orders(Matches(fs, pattern)) :
               proc' = BulkStart(Started("cli", "bulk", command, pattern, output_dir, d, e),
                                 fs, input_files)
    /\ UNCHANGED <<fs, cellText, cellValue, result, calls>>

\* One turn of the loop of process_bulk_conversion
BulkConvert ==
    /\ proc.pc = "loop"
    /\ Len(proc.attempted) < Len(proc.input_files)
    /\ BulkTried(proc.input_files[Len(proc.attempted) + 1],
                 Convert(proc.command, fs, proc.input_files[Len(proc.attempted) + 1],
                         OutputFile(proc.command, proc.out,
                                    proc.input_files[Len(proc.attempted) + 1]),
                         proc.delimiter, proc.escape))

\* The end of the loop: process_bulk_conversion and main return
BulkComplete ==
    /\ proc.pc = "loop"
    /\ Len(proc.attempted) = Len(proc.input_files)
    /\ proc' = Exit(proc, 0)
    /\ UNCHANGED <<fs, cellText, cellValue, result, calls>>

\* cli.main with --file and --output-file
CliMainFile ==
    /\ proc.pc = "none"
    /\ \E command \in Commands, output_file \in OutputArgs, d \in Delimiters :
         \E file \in FileArgs(command), e \in Escapes("cli") :
            MainFile(Started("cli", "file", command, file, output_file, d, e),
                     Convert(command, fs, file, output_file, d, e))

\* __main__.main with input_file and output_file
ModuleMain ==
    /\ proc.pc = "none"
    /\ \E command \in Commands, output_file \in OutputArgs, d \in Delimiters :
         \E input_file \in FileArgs(command), e \in Escapes("module") :
            ModuleFile(Started("module", "file", command, input_file, output_file, d, e),
                       Convert(command, fs, input_file, output_file, d, e))

OtherCsv == <<"a", "\n", "0", "\n">>

CliFiles ==
    {[p \in CliPaths |-> CASE p = "a.csv" -> a [] p = "c.csv" -> c [] p = "b.json" -> b
                           [] p = "d.json" -> d [] p = "locked" -> CsvFile(SmallCsv)
                           [] p = "sub/a.csv" -> sa [] OTHER -> Absent] :
        sa \in {Absent, CsvFile(OtherCsv)},
        a \in {Absent, CsvFile(SmallCsv), CsvFile(<<>>)},
        c \in {Absent, CsvFile(SmallCsv), CsvFile(<<>>)},
        b \in {Absent, JsonFile(SmallJson), JsonFile(<<Punct("bad")>>)},
        d \in {Absent, JsonFile(SmallJson)}}

InitCli ==
    /\ fs \in CliFiles
    /\ result = NoResult
    /\ calls = 0
    /\ proc = NoProcess
    /\ cellText = PyNone
    /\ cellValue = NotCalled

NextCli == CliMainBulk \/ BulkConvert \/ BulkComplete \/ CliMainFile \/ ModuleMain

SpecCli == InitCli /\ [][NextCli]_vars

\* A turn of the loop seen as the converter call it makes: in the loop, the
\* steps that count a call are the BulkConvert steps
BulkCall ==
    /\ proc.pc = "loop"
    /\ Len(proc.attempted) < Len(proc.input_files)
    /\ calls' = calls + 1

\* The process is sequential and every converter call ends: a loop that has
\* been entered goes on to its next turn, and to its end
SpecCliFair == InitCli /\ [][NextCli]_vars /\ WF_calls(BulkCall) /\ WF_vars(BulkComplete)

(***************************************************************************)
(* Properties.                                                             *)
(***************************************************************************)
\* The last call was of convert_csv_to_json / convert_json_to_csv
CsvToJsonCalled == result.op = "csv_to_json"
JsonToCsvCalled == result.op = "json_to_csv"

\* What the input path of the last call held when the call was made
InputFile == result.before[result.inp]
InputMissing == DirMissing(result.inp) \/ InputFile.kind = "absent"

\* ---- C1 ----------------------------------------------------------------
CountChar(s, c) == Cardinality({i \in 1..Len(s) : s[i] = c})

\* A cell of a plain dataset: not empty, no white space
PlainCell(cell) == cell # <<>> /\ \A i \in 1..Len(cell) : cell[i] \notin Whitespace

\* The lines are a dataset of string, integer and float texts: a header row of
\* distinct names, at least one data row, every row with as many cells as the
\* header row, every cell plain
PlainLines(ls, d) ==
    /\ Len(ls) >= 2
    /\ \A i \in 1..Len(ls) :
          /\ CountChar(ls[i], d) = CountChar(ls[1], d)
          /\ \A j \in 1..Len(SplitOn(ls[i], d)) : PlainCell(SplitOn(ls[i], d)[j])
    /\ \A j, k \in 1..Len(SplitOn(ls[1], d)) :
          SplitOn(ls[1], d)[j] = SplitOn(ls[1], d)[k] => j = k

PlainDataset(text, d) ==
    /\ text # <<>>
    /\ text[Len(text)] = "\n"
    /\ PlainLines(SplitOn(Slice(text, 1, Len(text) - 1), "\n"), d)

\* C1: when a plain dataset has been converted to JSON and the JSON back to
\* CSV, the CSV text written equals the original text, letter case aside.
C1_RoundTripKeepsText ==
    (/\ calls = 2
     /\ result.exc = "none"
     /\ PlainDataset(fs["a.csv"].chars, result.delimiter[1]))
    => LowerStr(fs["c.csv"].chars) = LowerStr(fs["a.csv"].chars)

\* The dataset of test_round_trip_conversion has gone both ways, and a
\* different text has come back
C1_TestDatasetChanged ==
    /\ calls = 2
    /\ result.exc = "none"
    /\ fs["a.csv"].chars = RoundTripTestText
    /\ LowerStr(fs["c.csv"].chars) # LowerStr(RoundTripTestText)

\* ---- C2 ----------------------------------------------------------------
\* An optional leading minus sign followed only by one or more digits
IntPattern(t) ==
    \E k \in {0, 1} :
        /\ Len(t) > k
        /\ k = 1 => t[1] = "-"
        /\ \A i \in (k + 1)..Len(t) : t[i] \in Digits

IntPatternValue(t) ==
    IF t[1] = "-" THEN 0 - StrToNat(Tail(t)) ELSE StrToNat(t)

\* Value v is the classification of the stripped text t
Classified(t, v) ==
    /\ t = <<>> => v = PyStr(<<>>)
    /\ IntPattern(t) => v = PyInt(IntPatternValue(t))
    /\ (t # <<>> /\ ~IntPattern(t) /\ FloatParse(t).k = "float") => v = FloatParse(t)
    /\ (t # <<>> /\ ~IntPattern(t) /\ FloatParse(t).k # "float") => v = PyStr(t)

NonNumericTexts ==
    { <<"N", "a", "N">>,
      <<"I", "n", "f", "i", "n", "i", "t", "y">>,
      <<"0", "x", "F", "F">>,
      <<"0", "o", "7", "7", "7">>,
      <<"0", "b", "1", "0", "1", "0">> }

\* The JSON text of one record with field "a" holding the string t
OneStringRecord(t) ==
    <<Punct("["), Punct("{"), Tok("str", <<"a">>), Punct(":"), Tok("str", t),
      Punct("}"), Punct("]")>>

\* C3: a cell holding NaN, Infinity, 0xFF, 0o777 or 0b1010 is written to the
\* JSON file as a string of the same text.
C3_EdgeCasesStayStrings ==
    \A t \in NonNumericTexts :
        (/\ CsvToJsonCalled
         /\ Len(result.delimiter) = 1
         /\ InputFile.chars = EdgeCaseFile(t))
        => /\ result.exc = "none"
           /\ fs[result.out].toks = OneStringRecord(t)

\* The cell NaN has been written as the JSON literal NaN
C3_NaNWrittenAsNumber ==
    /\ CsvToJsonCalled
    /\ InputFile.chars = EdgeCaseFile(<<"N", "a", "N">>)
    /\ result.exc = "none"
    /\ fs[result.out].toks[5] = Punct("NaN")

\* ---- C4 ----------------------------------------------------------------
\* The text has no header row: it is empty or its first line is blank
NoHeaderRow(text) == text = <<>> \/ Head(text) = "\n"

\* C4: convert_csv_to_json on an existing file without a header row fails
\* with a ValueError that mentions the headers.
C4_NoHeadersIsValueError ==
    (/\ CsvToJsonCalled
     /\ ~InputMissing
     /\ Len(result.delimiter) = 1
     /\ NoHeaderRow(InputFile.chars))
    => /\ result.exc = "ValueError"
       /\ result.msg[2] = "CSV file has no headers"

\* An empty file has been converted and the call has failed with an OSError
C4_NoHeadersIsOSError ==
    /\ CsvToJsonCalled
    /\ ~InputMissing
    /\ InputFile.chars = <<>>
    /\ result.exc = "OSError"
    /\ result.msg[2] = "CSV file has no headers"

\* ---- C5 ----------------------------------------------------------------
\* Some data row of the lines has more or fewer cells than the header row
RaggedLines(ls, d) ==
    /\ ls # <<>>
    /\ ls[1] # <<>>
    /\ \E i \in 2..Len(ls) :
          ls[i] # <<>> /\ CountChar(ls[i], d) # CountChar(ls[1], d)

\* C5: convert_csv_to_json on a CSV with a data row of more or fewer cells
\* than the header row fails with a ValueError naming the invalid format and
\* writes no JSON.
C5_RaggedRowsAreValueErrors ==
    (/\ CsvToJsonCalled
     /\ ~InputMissing
     /\ Len(result.delimiter) = 1
     /\ RaggedLines(SplitOn(InputFile.chars, "\n"), result.delimiter[1]))
    => /\ result.exc = "ValueError"
       /\ result.msg[1] = "Invalid CSV format: "
       /\ fs = result.before

\* A CSV with a row of fewer cells than the header row has been converted,
\* and JSON has been written
C5_ShortRowConverted ==
    /\ CsvToJsonCalled
    /\ result.delimiter = <<",">>
    /\ InputFile.chars = <<"a", ",", "1", "\n", "1">>
    /\ result.exc = "none"
    /\ fs[result.out].kind = "json"

\* ---- C6 ----------------------------------------------------------------
\* The JSON value the input file of the last call held (an exception if it
\* held no JSON value)
InputValue == JsonLoad(InputFile.toks)

\* Value v is neither an object nor an array of objects only
NotRecords(v) ==
    \/ v.k \in {"int", "float", "str", "bool", "none"}
    \/ v.k = "list" /\ \E i \in 1..Len(v.items) : v.items[i].k # "dict"

\* C6: convert_json_to_csv on a document that is a scalar, or an array with
\* an item that is no object, fails with a ValueError saying that the JSON
\* must contain an object or array of objects.
C6_NotRecordsIsValueError ==
    (JsonToCsvCalled /\ ~InputMissing /\ NotRecords(InputValue))
    => /\ result.exc = "ValueError"
       /\ result.msg[2] = "JSON must contain an object or array of objects"

\* An array with a number as its first item has been converted, and the call
\* has failed with an OSError about the missing method keys
C6_NumberItemIsOSError ==
    /\ JsonToCsvCalled
    /\ InputFile.toks = <<Punct("["), Tok("num", <<"1">>), Punct("]")>>
    /\ result.exc = "OSError"
    /\ result.msg[2] = "'int' object has no attribute 'keys'"

\* ---- C7 ----------------------------------------------------------------
\* Value v is an array of objects, one of them with another set of keys than
\* the first
MixedFields(v) ==
    /\ v.k = "list"
    /\ \A i \in 1..Len(v.items) : v.items[i].k = "dict"
    /\ \E i \in 1..Len(v.items) :
          {v.items[i].keys[j] : j \in 1..Len(v.items[i].keys)}
          # {v.items[1].keys[j] : j \in 1..Len(v.items[1].keys)}

\* C7: convert_json_to_csv on an array of objects, one of which has another
\* set of keys than the first, fails with a ValueError saying that all
\* objects must have the same fields.
C7_MixedFieldsIsValueError ==
    (JsonToCsvCalled /\ ~InputMissing /\ MixedFields(InputValue))
    => /\ result.exc = "ValueError"
       /\ result.msg[2] = "All objects in JSON array must have the same fields"

\* An array of two objects with different keys has been converted, and the
\* call has failed with an OSError
C7_MixedFieldsIsOSError ==
    /\ JsonToCsvCalled
    /\ ~InputMissing
    /\ MixedFields(InputValue)
    /\ Len(InputValue.items) = 2
    /\ result.exc = "OSError"
    /\ result.msg[2] = "All objects in JSON array must have the same fields"

\* ---- C8 ----------------------------------------------------------------
\* The input of the last call exists and is one the converter called accepts
InputValid ==
    /\ result.op # "none"
    /\ ~InputMissing
    /\ Len(result.delimiter) = 1
    /\ \/ CsvToJsonCalled /\ InputFile.chars = SmallCsv
       \/ JsonToCsvCalled /\ InputFile.toks = SmallJson

OutputBlocked == DirMissing(result.out) \/ ReadOnly(result.out)

\* C8: a call with a valid input whose output cannot be opened for writing
\* fails with an OSError, and a call fails with a FileNotFoundError only if
\* its input path does not exist.
C8_OutputFailureIsOSError ==
    /\ (InputValid /\ OutputBlocked) => result.exc = "OSError"
    /\ (result.op # "none" /\ result.exc = "FileNotFoundError") => InputMissing

\* A valid input has been converted towards a directory that does not exist,
\* and the call has failed with a FileNotFoundError naming the input
C8_MissingDirectoryIsNotFound ==
    /\ InputValid
    /\ DirMissing(result.out)
    /\ result.exc = "FileNotFoundError"
    /\ result.msg = Msg("Input file not found: ", result.inp)

\* ---- C9 ----------------------------------------------------------------
\* C9: a call of either converter on an input path that does not exist fails
\* with a FileNotFoundError whose message names the input path, whatever the
\* output path, the delimiter and the escape character.
C9_MissingInputIsNotFound ==
    (result.op # "none" /\ InputMissing)
    => /\ result.exc = "FileNotFoundError"
       /\ result.msg = Msg("Input file not found: ", result.inp)

\* convert_csv_to_json has been called on a missing input, with a delimiter
\* the csv module rejects and an output that cannot be opened
C9_MissingInputCalled ==
    /\ CsvToJsonCalled
    /\ InputMissing
    /\ result.delimiter = <<",", ",">>
    /\ result.out = "locked"
    /\ result.exc = "FileNotFoundError"

\* ---- C10 ---------------------------------------------------------------
\* The number grammar of JSON (RFC 8259) as an automaton over the characters
NumberStep(q, c) ==
    CASE q = "start" /\ c = "-" -> "minus"
      [] q \in {"start", "minus"} /\ c = "0" -> "zero"
      [] q \in {"start", "minus"} /\ c \in Digits \ {"0"} -> "int"
      [] q = "int" /\ c \in Digits -> "int"
      [] q \in {"zero", "int"} /\ c = "." -> "point"
      [] q \in {"point", "frac"} /\ c \in Digits -> "frac"
      [] q \in {"zero", "int", "frac"} /\ c \in {"e", "E"} -> "e"
      [] q = "e" /\ c \in {"+", "-"} -> "sign"
      [] q \in {"e", "sign", "exp"} /\ c \in Digits -> "exp"
      [] OTHER -> "reject"

RECURSIVE NumberRun(_, _, _)
NumberRun(s, i, q) ==
    IF i > Len(s) THEN q ELSE NumberRun(s, i + 1, NumberStep(q, s[i]))

StdNumber(s) == NumberRun(s, 1, "start") \in {"zero", "int", "frac", "exp"}

StdScalar(tok) ==
    \/ tok.t \in {"str", "true", "false", "null"}
    \/ tok.t = "num" /\ StdNumber(tok.s)

\* The grammar of JSON (RFC 8259) as an automaton over the tokens: open is
\* the sequence of the brackets open, expect is what may come next
RECURSIVE StdScan(_, _, _, _)
StdScan(toks, i, open, expect) ==
    IF i > Len(toks) THEN open = <<>> /\ expect = "after"
    ELSE IF expect \in {"value", "item"} /\ StdScalar(toks[i])
    THEN StdScan(toks, i + 1, open, "after")
    ELSE IF expect \in {"value", "item"} /\ toks[i].t = "["
    THEN StdScan(toks, i + 1, Append(open, "["), "item")
    ELSE IF expect \in {"value", "item"} /\ toks[i].t = "{"
    THEN StdScan(toks, i + 1, Append(open, "{"), "member")
    ELSE IF expect = "item" /\ toks[i].t = "]"
    THEN StdScan(toks, i + 1, Slice(open, 1, Len(open) - 1), "after")
    ELSE IF expect = "member" /\ toks[i].t = "}"
    THEN StdScan(toks, i + 1, Slice(open, 1, Len(open) - 1), "after")
    ELSE IF expect \in {"member", "name"} /\ toks[i].t = "str"
    THEN StdScan(toks, i + 1, open, "colon")
    ELSE IF expect = "colon" /\ toks[i].t = ":"
    THEN StdScan(toks, i + 1, open, "value")
    ELSE IF expect = "after" /\ open # <<>> /\ toks[i].t = ","
    THEN StdScan(toks, i + 1, open, IF open[Len(open)] = "[" THEN "value" ELSE "name")
    ELSE IF /\ expect = "after" /\ open # <<>>
            /\ <<open[Len(open)], toks[i].t>> \in {<<"[", "]">>, <<"{", "}">>}
    THEN StdScan(toks, i + 1, Slice(open, 1, Len(open) - 1), "after")
    ELSE FALSE

IsStdJson(toks) == StdScan(toks, 1, <<>>, "value")

\* C10: convert_json_to_csv on an existing file whose content is no valid
\* JSON fails with a ValueError whose message holds the word JSON.
C10_InvalidJsonIsValueError ==
    (JsonToCsvCalled /\ ~InputMissing /\ ~IsStdJson(InputFile.toks))
    => /\ result.exc = "ValueError"
       /\ result.msg[1] \in {"Invalid JSON format: ", "Error converting JSON to CSV: "}

\* An object with the field value NaN, which is no JSON, has been converted
\* without an error
C10_NaNAccepted ==
    /\ JsonToCsvCalled
    /\ InputFile.toks = <<Punct("{"), Tok("str", <<"a">>), Punct(":"), Punct("NaN"),
                          Punct("}")>>
    /\ result.exc = "none"
    /\ fs[result.out].kind = "csv"

\* ---- C11 ---------------------------------------------------------------
\* The characters of a JSON token
TokenText(tok) ==
    CASE tok.t = "str" -> <<"\"">> \o tok.s \o <<"\"">>
      [] tok.t = "num" -> tok.s
      [] tok.t = "null" -> <<"n", "u", "l", "l">>
      [] tok.t = "true" -> <<"t", "r", "u", "e">>
      [] tok.t = "false" -> <<"f", "a", "l", "s", "e">>
      [] OTHER -> <<tok.t>>

\* The JSON text of value v without white space
CompactJson(v) == Concat([i \in 1..Len(JsonDump(v)) |-> TokenText(JsonDump(v)[i])])

NotSpace(c) == c # " "

\* A field of a CSV row as the reader gives it back: without its quotes,
\* with the doubled quotes inside single again
RECURSIVE Undoubled(_)
Undoubled(s) ==
    IF s = <<>> THEN <<>>
    ELSE IF Len(s) >= 2 /\ s[1] = "\"" /\ s[2] = "\"" THEN <<"\"">> \o Undoubled(Tail(Tail(s)))
    ELSE <<Head(s)>> \o Undoubled(Tail(s))

Unquoted(f) ==
    IF Len(f) >= 2 /\ Head(f) = "\"" THEN Undoubled(Slice(f, 2, Len(f) - 1)) ELSE f

\* The cell text is the rendering of value v: empty for null, the number,
\* True or False, the text of a string, the JSON text of an object or array
\* (white space aside)
RendersAs(cell, v) ==
    CASE v.k = "none" -> cell = <<>>
      [] v.k = "int" -> cell = IntToStr(v.n)
      [] v.k = "float" -> cell = FloatRepr(v)
      [] v.k = "bool" -> LowerStr(cell) = CompactJson(v)
      [] v.k = "str" -> cell = v.s
      [] OTHER -> SelectSeq(cell, NotSpace) = CompactJson(v)

\* The last call has written the CSV of one record with the one field "a"
OneFieldWritten ==
    /\ JsonToCsvCalled
    /\ result.exc = "none"
    /\ IsStdJson(InputFile.toks)
    /\ InputValue.k = "dict"
    /\ InputValue.keys = <<PyStr(<<"a">>)>>

\* The cell of that record as a reader gives it back
WrittenCell == Unquoted(Slice(fs[result.out].chars, 3, Len(fs[result.out].chars) - 1))

\* C11: the cell convert_json_to_csv writes for a JSON value is empty for
\* null, the standard text of a number or boolean, and for an object or
\* array a JSON text of that object or array.
C11_CellsRenderValues ==
    OneFieldWritten => RendersAs(WrittenCell, InputValue.vals[1])

\* An object with a string member has been written as the cell, in the
\* notation of Python with single quotes
C11_ObjectWrittenAsRepr ==
    /\ OneFieldWritten
    /\ InputValue.vals[1] = PyDict(<<PyStr(<<"k">>)>>, <<PyStr(<<"v">>)>>)
    /\ WrittenCell = <<"{", "'", "k", "'", ":", " ", "'", "v", "'", "}">>

\* ---- C12 ---------------------------------------------------------------
\* The JSON text the last call has written
OutputTokens == fs[result.out].toks

\* C12: in the JSON that convert_csv_to_json writes, no record key and no
\* string value has white space at its start or at its end: header names and
\* cell values are trimmed.
C12_NamesAndValuesTrimmed ==
    (CsvToJsonCalled /\ result.exc = "none")
    => \A i \in 1..Len(OutputTokens) :
          OutputTokens[i].t = "str" => Strip(OutputTokens[i].s) = OutputTokens[i].s

\* A file whose header name starts with a space has been converted, and the
\* key of the record starts with the space
C12_HeaderNotTrimmed ==
    /\ CsvToJsonCalled
    /\ result.exc = "none"
    /\ InputFile.chars = <<" ", "a", "\n", "1", "\n">>
    /\ OutputTokens[3] = Tok("str", <<" ", "a">>)
    /\ OutputTokens[5] = Tok("num", <<"1">>)

\* ---- C13 ---------------------------------------------------------------
EmptyArray == <<Punct("["), Punct("]")>>

\* C13: convert_json_to_csv on the empty array, with an output that can be
\* opened, returns and leaves the output file empty: no header, nothing of
\* what the file held before.
C13_EmptyArrayGivesEmptyFile ==
    (/\ JsonToCsvCalled
     /\ ~InputMissing
     /\ InputFile.toks = EmptyArray
     /\ ~OutputBlocked)
    => /\ result.exc = "none"
       /\ fs[result.out] = CsvFile(<<>>)

\* The empty array has been converted onto a file that held a CSV text
C13_EmptyArrayOverContent ==
    /\ JsonToCsvCalled
    /\ InputFile.toks = EmptyArray
    /\ result.before[result.out] = CsvFile(SmallCsv)
    /\ result.exc = "none"
    /\ fs[result.out].chars = <<>>

\* ---- C14 ---------------------------------------------------------------
\* The text is a header row that is not blank and no data row: nothing but
\* line ends comes after the first line
HeaderOnly(text) ==
    /\ text # <<>>
    /\ Head(text) # "\n"
    /\ \A i \in 1..Len(text) :
          text[i] = "\n" => \A j \in i..Len(text) : text[j] = "\n"

\* C14: convert_csv_to_json on a file with a header row and no data rows
\* returns and writes the empty JSON array.
C14_HeaderOnlyGivesEmptyArray ==
    (/\ CsvToJsonCalled
     /\ ~InputMissing
     /\ Len(result.delimiter) = 1
     /\ HeaderOnly(InputFile.chars))
    => /\ result.exc = "none"
       /\ OutputTokens = EmptyArray

\* A file of a header row of two names has been converted to []
C14_HeaderOnlyConverted ==
    /\ CsvToJsonCalled
    /\ InputFile.chars = <<"a", ",", "1", "\n">>
    /\ result.delimiter = <<",">>
    /\ result.exc = "none"
    /\ OutputTokens = EmptyArray

\* ---- C15 ---------------------------------------------------------------
\* What the last call writes when its input is the only file there is
Produced ==
    IF CsvToJsonCalled
    THEN ConvertCsvToJson(OnlyFile(result.inp, InputFile), result.inp, result.out,
                          result.delimiter, result.escape_char).files[result.out]
    ELSE ConvertJsonToCsv(OnlyFile(result.inp, InputFile), result.inp, result.out,
                          result.delimiter, result.escape_char).files[result.out]

\* C15: after a call the input file holds what it held before, and after a
\* call that returned the output file holds the text produced and nothing of
\* what it held before.
C15_InputKeptOutputReplaced ==
    result.op # "none"
    => /\ fs[result.inp] = InputFile
       /\ (result.exc = "none" /\ result.inp # result.out) => fs[result.out] = Produced

\* convert_csv_to_json has been called with its input as its output, and the
\* CSV file now holds JSON
C15_InputOverwritten ==
    /\ CsvToJsonCalled
    /\ result.inp = result.out
    /\ InputFile = CsvFile(SmallCsv)
    /\ result.exc = "none"
    /\ fs[result.inp] = JsonFile(SmallJson)

\* ---- C16 ---------------------------------------------------------------
BulkMode == proc.pc \in {"loop", "exit"} /\ proc.mode = "bulk"
AttemptedFiles == [i \in 1..Len(proc.attempted) |-> proc.attempted[i].file]
IsFailure(a) == a.exc # "none"
Failures == SelectSeq(proc.attempted, IsFailure)
Reports == [i \in 1..Len(Failures) |-> Failures[i].file]
IsProcessingLine(l) == l.head = "Error processing "
ProcessingLines == SelectSeq(proc.stderr, IsProcessingLine)
ErrorStreamFiles == [i \in 1..Len(ProcessingLines) |-> ProcessingLines[i].msg[1]]

\* In the loop the attempts are the first files of the list, in list order,
\* and the error stream has one line for each failed attempt; the loop is
\* left only when every file of the list has been attempted
BulkInOrder ==
    BulkMode /\ proc.input_files # <<>>
    => /\ Len(proc.attempted) <= Len(proc.input_files)
       /\ AttemptedFiles = SubSeq(proc.input_files, 1, Len(proc.attempted))
       /\ ErrorStreamFiles = Reports
       /\ proc.pc = "exit" => AttemptedFiles = proc.input_files

BulkLooping == proc.pc = "loop"
BulkAllAttempted ==
    /\ proc.pc = "exit"
    /\ AttemptedFiles = proc.input_files
    /\ ErrorStreamFiles = Reports

\* C16: process_bulk_conversion attempts every matched file once, in list
\* order; a failed conversion is reported on the error stream and the later
\* files of the list are still attempted.
C16_EveryFileAttempted == [](BulkInOrder) /\ (BulkLooping ~> BulkAllAttempted)

\* A bulk conversion has ended whose first file failed and whose second
\* file was converted
C16_FailureThenSuccess ==
    /\ BulkMode
    /\ proc.pc = "exit"
    /\ Len(proc.input_files) = 2
    /\ Len(proc.attempted) = 2
    /\ proc.attempted[1].exc # "none"
    /\ proc.attempted[2].exc = "none"
    /\ fs[OutputFile(proc.command, proc.out, proc.input_files[2])].kind # "absent"

\* ---- C17 ---------------------------------------------------------------
\* C17: cli.main exits with code 0 only when nothing was reported on the
\* error stream, and with code 1 whenever a failure was reported, in
\* single-file mode and in bulk mode.
C17_ExitCodeTellsFailure ==
    (proc.pc = "exit" /\ proc.entry = "cli")
    => /\ proc.code = 0 => Len(proc.stderr) = 0
       /\ Len(proc.stderr) > 0 => proc.code = 1

\* A bulk conversion has reported a failed file and exited with code 0
C17_BulkFailureExitsZero ==
    /\ proc.pc = "exit"
    /\ proc.entry = "cli"
    /\ proc.mode = "bulk"
    /\ Len(Failures) > 0
    /\ Len(proc.stderr) > 0
    /\ proc.code = 0

\* ---- C18 ---------------------------------------------------------------
ErrorCategories == {"FileNotFoundError", "ValueError", "OSError"}

\* C18: when the converter called by an entry point (cli.main or
\* __main__.main) raises a NotFound, Validation or IO error, the entry point
\* catches it, prints a message on the error stream and exits with code 1.
C18_ConverterErrorsCaught ==
    (proc.pc \in {"exit", "raised"} /\ proc.mode = "file" /\ proc.converter \in ErrorCategories)
    => /\ proc.pc = "exit"
       /\ proc.code = 1
       /\ Len(proc.stderr) > 0

\* A converter error has left __main__.main as an unhandled exception
C18_ModuleMainRaises ==
    /\ proc.pc = "raised"
    /\ proc.entry = "module"
    /\ proc.converter \in ErrorCategories

\* ---- C19 ---------------------------------------------------------------
\* C19: handle_escape_characters(escape_characters(text, e), e) is text, for
\* every text and every escape character e.
C19_EscapeRoundTrip ==
    result.op = "handle_escape_characters" => result.unescaped = result.text

\* The text "," has been escaped with "," and handled, and two commas came back
C19_CommaDoubled ==
    /\ result.op = "handle_escape_characters"
    /\ result.text = <<",">>
    /\ result.escape_char = ","
    /\ result.escaped = <<",", ",", ",", ",">>
    /\ result.unescaped = <<",", ",">>

\* ---- C20 ---------------------------------------------------------------
\* The field of the one record as it stands in the output file
WrittenField == Slice(fs[result.out].chars, 3, Len(fs[result.out].chars) - 1)

\* A text with the escape character e before each delimiter, newline and tab
EscapedChar(c, d, e) == IF c \in {d, "\n", "\t"} THEN <<e, c>> ELSE <<c>>
EscapedText(text, d, e) == Concat([i \in 1..Len(text) |-> EscapedChar(text[i], d, e)])

\* A text in quotes with its quotes doubled
DoubledChar(c) == IF c = "\"" THEN <<"\"", "\"">> ELSE <<c>>
QuotedText(text) == <<"\"">> \o Concat([i \in 1..Len(text) |-> DoubledChar(text[i])]) \o <<"\"">>

HasAny(text, cs) == \E i \in 1..Len(text) : text[i] \in cs

\* The last call has written one record whose one field is a string
OneTextWritten == OneFieldWritten /\ InputValue.vals[1].k = "str"

\* C20: with an escape character, a field that holds the delimiter, a
\* newline or a tab is written unquoted with the escape character before
\* each of them; without one, a field that holds the delimiter, a newline
\* or a quote is written in quotes with its quotes doubled.
C20_EscapedOrQuoted ==
    OneTextWritten
    => /\ (result.escape_char # PyNone
           /\ HasAny(InputValue.vals[1].s, {result.delimiter[1], "\n", "\t"}))
          => WrittenField = EscapedText(InputValue.vals[1].s, result.delimiter[1],
                                        result.escape_char.s[1])
       /\ (result.escape_char = PyNone
           /\ HasAny(InputValue.vals[1].s, {result.delimiter[1], "\n", "\""}))
          => WrittenField = QuotedText(InputValue.vals[1].s)

\* With the escape character "\\" and the delimiter ",", the text x,y has
\* been written in quotes and without an escape character
C20_DelimiterQuoted ==
    /\ OneTextWritten
    /\ result.escape_char = PyStr(<<"\\">>)
    /\ result.delimiter = <<",">>
    /\ InputValue.vals[1].s = <<"x", ",", "y">>
    /\ WrittenField = <<"\"", "x", ",", "y", "\"">>

\* ---- C21 ---------------------------------------------------------------
KeysOf(d) == {d.keys[j] : j \in 1..Len(d.keys)}

\* Value v is an array of objects that all have the keys of the first, which
\* has one key at least
SameKeySets(v) ==
    /\ v.k = "list"
    /\ v.items # <<>>
    /\ \A i \in 1..Len(v.items) : v.items[i].k = "dict"
    /\ v.items[1].keys # <<>>
    /\ \A i \in 1..Len(v.items) :
          /\ KeysOf(v.items[i]) = KeysOf(v.items[1])
          /\ Len(v.items[i].keys) = Len(v.items[1].keys)

\* The value of object d under key
Under(d, key) == d.vals[CHOOSE k \in 1..Len(d.keys) : d.keys[k] = key]

\* The rows of the output file: the fields of each of its lines
OutputRows(lines, d) == [i \in 1..Len(lines) |-> SplitOn(lines[i], d)]

\* The rows are the header in the key order of the first object, and for each
\* object its values in the order of the header
RowsFollowHeader(rows, items) ==
    /\ Len(rows) = Len(items) + 1
    /\ rows[1] = [j \in 1..Len(items[1].keys) |-> items[1].keys[j].s]
    /\ \A i \in 1..Len(items) :
          rows[i + 1] = [j \in 1..Len(items[1].keys) |->
                            FieldText(Under(items[i], items[1].keys[j]))]

\* C21: convert_json_to_csv accepts an array of objects with one key set in
\* any key orders, writes the header in the key order of the first object
\* and every row in the column order of the header.
C21_RowsInHeaderOrder ==
    (/\ JsonToCsvCalled
     /\ ~InputMissing
     /\ Len(result.delimiter) = 1
     /\ SameKeySets(InputValue))
    => /\ result.exc = "none"
       /\ RowsFollowHeader(OutputRows(FileLines(fs[result.out].chars), result.delimiter[1]),
                           InputValue.items)

\* Two objects with the keys a, b and b, a have been written: a row each,
\* the values of the second in the order a, b
C21_KeyOrdersDiffer ==
    /\ JsonToCsvCalled
    /\ result.exc = "none"
    /\ result.delimiter = <<",">>
    /\ SameKeySets(InputValue)
    /\ Len(InputValue.items) = 2
    /\ InputValue.items[1].keys = <<PyStr(<<"a">>), PyStr(<<"b">>)>>
    /\ InputValue.items[2] = PyDict(<<PyStr(<<"b">>), PyStr(<<"a">>)>>, <<PyInt(1), PyNaN>>)
    /\ FileLines(fs[result.out].chars)[3] = <<"n", "a", "n", ",", "1">>

\* ---- C22 ---------------------------------------------------------------
\* The data rows of a CSV text: its lines after the header line that hold a
\* cell (the csv reader yields no row for a line without one)
DataRows(text) == SelectSeq(Tail(FileLines(text)), NotBlank)

\* The records convert_csv_to_json makes of the header line and one data row
RowAlone(header, row, delimiter, escape_char) ==
    JsonLoad(ConvertCsvToJson(OnlyFile("a.csv", CsvFile(header \o <<"\n">> \o row \o <<"\n">>)),
                              "a.csv", "b.json", delimiter, escape_char).files["b.json"].toks)

\* The records are those of the data rows, one for one and in their order
RecordsFollowRows(records, header, rows, delimiter, escape_char) ==
    /\ records.k = "list"
    /\ Len(records.items) = Len(rows)
    /\ \A i \in 1..Len(rows) :
          <<records.items[i]>> = RowAlone(header, rows[i], delimiter, escape_char).items

\* The array of value v: the object itself when v is an object
ItemsOf(v) == IF v.k = "dict" THEN <<v>> ELSE v.items

\* The last line convert_json_to_csv writes for the first object and object
\* item: the line of item under the header of the first
LineAlone(first, item, delimiter, escape_char) ==
    FileLines(ConvertJsonToCsv(OnlyFile("b.json", JsonFile(JsonDump(PyList(IF item = first THEN <<first>> ELSE <<first, item>>)))),
                               "b.json", "c.csv", delimiter, escape_char).files["c.csv"].chars)

\* The lines are the header and the lines of the objects, one for one and in
\* their order; no line for no object
LinesFollowItems(lines, items, delimiter, escape_char) ==
    IF items = <<>> THEN lines = <<>>
    ELSE /\ Len(lines) = Len(items) + 1
         /\ \A i \in 1..Len(items) :
               lines[i + 1] =
                   LineAlone(items[1], items[i], delimiter, escape_char)[IF items[i] = items[1] THEN 2 ELSE 3]

\* C22: a conversion that returns has written one record for each record of
\* its input, the i-th for the i-th: convert_csv_to_json an object for each
\* data row, convert_json_to_csv a line for each object.
C22_RecordOrderKept ==
    /\ (CsvToJsonCalled /\ result.exc = "none")
       => RecordsFollowRows(JsonLoad(fs[result.out].toks), Head(FileLines(InputFile.chars)),
                            DataRows(InputFile.chars), result.delimiter, result.escape_char)
    /\ (JsonToCsvCalled /\ result.exc = "none")
       => LinesFollowItems(FileLines(fs[result.out].chars), ItemsOf(InputValue),
                           result.delimiter, result.escape_char)

\* Both conversions have been made of a CSV text with two different data
\* rows: the JSON text has two different objects, the CSV text written of
\* it two different data lines
C22_TwoRecordsConverted ==
    /\ JsonToCsvCalled
    /\ result.exc = "none"
    /\ calls = 2
    /\ Len(ItemsOf(InputValue)) = 2
    /\ InputValue.items[1] # InputValue.items[2]
    /\ Len(FileLines(fs[result.out].chars)) = 3
    /\ FileLines(fs[result.out].chars)[2] # FileLines(fs[result.out].chars)[3]

\* ---- C23 ---------------------------------------------------------------
\* The column names of a CSV text: the fields of its header line
HeaderNames(text, delimiter) == {PyStr(ReaderRow(Head(FileLines(text)), delimiter)[j]) : j \in 1..Len(ReaderRow(Head(FileLines(text)), delimiter))}

\* Record d maps each of the names, and nothing else, to a string, an
\* integer or a float
ScalarRecord(d, names) ==
    /\ d.k = "dict"
    /\ KeysOf(d) = names
    /\ \A j \in 1..Len(d.vals) : d.vals[j].k \in {"str", "int", "float"}

\* C23: every record convert_csv_to_json writes maps each header column name
\* to a string, an integer or a float: no null, no list, no other key,
\* whatever the number of cells of the data rows.
C23_RecordsAreScalarMaps ==
    (CsvToJsonCalled /\ result.exc = "none")
    => \A i \in 1..Len(JsonLoad(OutputTokens).items) :
          ScalarRecord(JsonLoad(OutputTokens).items[i],
                       HeaderNames(InputFile.chars, result.delimiter))

\* A data row with one cell under a header of two has been converted, and
\* its record holds null for the second column
C23_NullForMissingCell ==
    /\ CsvToJsonCalled
    /\ result.exc = "none"
    /\ result.delimiter = <<",">>
    /\ InputFile.chars = <<"a", ",", "1", "\n", "0">>
    /\ JsonLoad(OutputTokens).items = <<PyDict(<<PyStr(<<"a">>), PyStr(<<"1">>)>>, <<PyInt(0), PyNone>>)>>

\* ---- C24 ---------------------------------------------------------------
\* The input of the last call does not pass the checks of its converter: it
\* is missing, or it is a CSV text without a header row or with a row longer
\* than the header, or it is no JSON text, no object or array of objects, or
\* an array of objects with different key sets
InputRejected ==
    \/ InputMissing
    \/ /\ CsvToJsonCalled
       /\ \/ NoHeaderRow(InputFile.chars)
          \/ Len(result.delimiter) = 1
             /\ RaggedLines(FileLines(InputFile.chars), result.delimiter[1])
    \/ /\ JsonToCsvCalled
       /\ \/ InputValue.k = "raise"
          \/ NotRecords(InputValue)
          \/ MixedFields(InputValue)

\* C24: a call that fails with FileNotFoundError or ValueError, or fails on
\* an input that does not pass the checks, leaves the output file as it was:
\* not created, not truncated, not written.
C24_FailedCheckKeepsOutput ==
    (/\ result.op # "none"
     /\ result.exc # "none"
     /\ result.exc \in {"FileNotFoundError", "ValueError"} \/ InputRejected)
    => fs[result.out] = result.before[result.out]

\* convert_json_to_csv has failed on an array of objects with different keys,
\* and the CSV text the output file held is still there
C24_MixedFieldsKeepOutput ==
    /\ JsonToCsvCalled
    /\ result.exc # "none"
    /\ InputFile.toks = MixedJson
    /\ Len(result.delimiter) = 1
    /\ result.before[result.out] = CsvFile(SmallCsv)
    /\ fs[result.out] = CsvFile(SmallCsv)

\* ---- C25 ---------------------------------------------------------------
\* The output file of the i-th file of the list
OutputOf(i) == OutputFile(proc.command, proc.out, proc.input_files[i])

\* C25: in a run of process_bulk_conversion two different files of the list
\* have two different output files, so that no file's output is written
\* over by the output of another.
C25_OutputFilesDistinct ==
    BulkMode
    => \A i, j \in 1..Len(proc.input_files) :
          proc.input_files[i] # proc.input_files[j] => OutputOf(i) # OutputOf(j)

\* a.csv and sub/a.csv, of different content, have both been converted in
\* one run, to the same output file, which holds the records of the later
\* one only
C25_OutputOverwritten ==
    /\ BulkMode
    /\ proc.pc = "exit"
    /\ Len(proc.attempted) = 2
    /\ proc.attempted[1] = [file |-> "a.csv", exc |-> "none"]
    /\ proc.attempted[2] = [file |-> "sub/a.csv", exc |-> "none"]
    /\ OutputOf(1) = OutputOf(2)
    /\ fs[OutputOf(1)] = JsonFile(JsonDump(PyList(<<PyDict(<<PyStr(<<"a">>)>>, <<PyInt(0)>>)>>)))

=============================================================================
